---------------------------- MODULE Spec2Model ----------------------------
(***************************************************************************)
(* JobMatch.ai scraping core: the run orchestrator (run_scrape), the       *)
(* discovery pipeline (run_deep_research) with its SSE wrapper             *)
(* (event_stream) and the session dependency (get_db).                     *)
(*                                                                         *)
(* One call is active at a time.  A call is cut at its awaits: one action  *)
(* per fetched search page, per processed stub, per generator resumption.  *)
(* Listings are identified by a key; what a site serves for a key (title   *)
(* markup, snippet markup) is a fixed catalogue, which pages a search      *)
(* returns and what every fetch yields is chosen freely.                   *)
(*                                                                         *)
(* Spec is that model.  Five smaller specifications look at one part each: *)
(* FetchSpec (fetch_with_retry, request by request), NetSpec (the robots   *)
(* cache and the order of requests), LoopSpec (the two stub loops side by  *)
(* side), PageSpec (a search by counts, with full pages) and ConcSpec (two *)
(* runs over one jobs table).                                              *)
(***************************************************************************)
EXTENDS Integers, Sequences, FiniteSets, TLC

\* ------------------------------------------------------------------ bounds
NumKeys == 3        \* distinct listing keys a site can serve
MaxCards == 2       \* job cards on one fetched result page
MaxSources == 2     \* length of the requested source list
MaxTargets == 2     \* items in the LLM's company list

\* ------------------------------------------------------- program constants
INDEED_PAGE_STEP == 10
LINKEDIN_PAGE_STEP == 25
MAX_RESULTS_CAP == 50
CARDS_PER_PAGE == 30
MIN_CONTENT_LEN == 20
MAX_COMPANIES == 15
MAX_ERRORS == 5

Keys == 1..NumKeys
Min(a, b) == IF a <= b THEN a ELSE b

\* ---------------------------------------------------------------- texts
ShortText == "Python dev"
LongText == "Build and operate backend services"
DetailText == "Full description taken from the detail page"

\* len(text.strip()) of the texts that occur
StrLen(t) ==
    CASE t = "" -> 0
      [] t = ShortText -> 10
      [] t = LongText -> 34
      [] t = DetailText -> 43
      [] OTHER -> 7

\* What the markup of the card of key k carries: "" stands for a missing element.
RawTitle(k) == IF k % 2 = 0 THEN "" ELSE "Engineer"
RawCompany(k) == IF k % 3 = 0 THEN "" ELSE "Acme"
RawSnippet(k) == CASE k % 3 = 1 -> LongText [] k % 3 = 2 -> "" [] OTHER -> ShortText

\* A raw card: a key, or 0 for a card without a usable link.
RawCards == 0..NumKeys

RECURSIVE SeqsUpTo(_, _)
SeqsUpTo(S, n) ==
    IF n = 0 THEN {<<>>}
    ELSE LET shorter == SeqsUpTo(S, n - 1)
         IN shorter \cup {Append(s, x) : s \in {t \in shorter : Len(t) = n - 1}, x \in S}

Take(s, n) == SubSeq(s, 1, Min(Len(s), n))

IndeedUrl(k) == <<"indeed", k>>
LinkedInUrl(k) == <<"linkedin", k>>
AllUrls == {IndeedUrl(k) : k \in Keys} \cup {LinkedInUrl(k) : k \in Keys}

\* ------------------------------------------------------------ the parsers
IndeedStub(k) ==
    [job_title |-> IF RawTitle(k) # "" THEN RawTitle(k) ELSE "Unknown",
     company_name |-> IF RawCompany(k) # "" THEN RawCompany(k) ELSE "Unknown",
     job_url |-> IndeedUrl(k),
     job_id |-> 0,
     snippet |-> RawSnippet(k),
     source |-> "indeed"]

LinkedInStub(k) ==
    [job_title |-> IF RawTitle(k) # "" THEN RawTitle(k) ELSE "Unknown",
     company_name |-> IF RawCompany(k) # "" THEN RawCompany(k) ELSE "Unknown",
     job_url |-> LinkedInUrl(k),
     job_id |-> k,
     snippet |-> "",
     source |-> "linkedin"]

RECURSIVE ParseCards(_, _)
ParseCards(cards, site) ==
    IF cards = <<>> THEN <<>>
    ELSE LET rest == ParseCards(Tail(cards), site)
             c == Head(cards)
         IN IF c = 0 THEN rest
            ELSE <<IF site = "indeed" THEN IndeedStub(c) ELSE LinkedInStub(c)>> \o rest

parse_search_html(cards, site) == ParseCards(Take(cards, CARDS_PER_PAGE), site)

\* A page loop that appends every job of the page, seen or not
RECURSIVE MergePage_NoDedup(_, _, _)
MergePage_NoDedup(all, page, max_results) ==
    IF page = <<>> THEN all
    ELSE LET next == Append(all, Head(page))
         IN IF Len(next) >= max_results THEN next
            ELSE MergePage_NoDedup(next, Tail(page), max_results)

\* The dedup loop of one page: for job in page_jobs: add when unseen, stop at the cap.
RECURSIVE MergePage(_, _, _)
MergePage(all, page, max_results) ==
    IF page = <<>> THEN all
    ELSE LET job == Head(page)
             next == IF \E i \in 1..Len(all) : all[i].job_url = job.job_url
                     THEN all ELSE Append(all, job)
         IN IF Len(next) >= max_results THEN next
            ELSE MergePage(next, Tail(page), max_results)

PageStep(site) == IF site = "indeed" THEN INDEED_PAGE_STEP ELSE LINKEDIN_PAGE_STEP


\* ------------------------------------------------------------------ state
VARIABLES
    scraping_enabled,  \* settings.scraping_enabled
    store,             \* job_url of every committed row of the jobs table
    call,              \* the active call: "none", "run_scrape" or "deep_scrape"
    pc,                \* where the active call stands
    args,              \* the call's arguments
    existing_urls,     \* the run's known-URL set
    session,           \* the AsyncSession: rows added and not committed, and its health
    report,            \* run_scrape's ScrapeReport
    result,            \* the ScrapeResult of the source being scraped
    src_i,             \* position in the for-source loop (1-based)
    start,             \* the search's page offset
    all_jobs,          \* the search's accumulated stubs
    stubs,             \* the stubs the search returned
    stub_i,            \* position in the for-stub loop (1-based)
    pages_ok,          \* pages the current search fetched
    pages_failed,      \* page fetches of the current search that raised after retries
    last_page_empty,   \* whether the page the current search fetched last had no stub
    http_requests,     \* fetch_with_retry calls of the active call
    detail_failed,     \* whether the detail fetch of the stub run_scrape took last failed
    companies,         \* run_deep_research: the names _research_companies returned
    comp_i,            \* position in the for-company loop (1-based; the code's i + 1)
    company_new,       \* rows added for the current company
    total_new,         \* run_deep_research's total_new
    company_results,   \* run_deep_research's company_results
    events,            \* what run_deep_research has yielded
    delivered,         \* what event_stream has yielded to the response
    dep,               \* get_db: "none", "open" (session yielded) or "closed"
    f_pc,              \* fetch_with_retry: "idle", "loop", "returned" or "raised"
    f_retries,         \* fetch_with_retry: retries
    f_attempt,         \* fetch_with_retry: the for loop's attempt
    f_requests,        \* client.get calls of the fetch_with_retry call
    f_waits,           \* the backoff sleeps of the call, in order
    f_last_error,      \* fetch_with_retry: last_error
    f_outcomes,        \* what each client.get of the call ended in, in order
    f_raised,          \* what the call raised
    f_response         \* the status of the response the call returned

VARIABLES
    robots_cache,      \* base_scraper._robots_cache: domain -> RobotFileParser
    robots_reads,      \* per domain, what each fetch of its robots.txt ended in, in order
    robots_hit,        \* per domain, whether get_robots_parser has answered from the cache
    n_pc,              \* request-level run_scrape: where the run stands
    n_sources,         \* request-level run_scrape: the sources argument
    n_i,               \* request-level run_scrape: position in the for-source loop
    n_robots,          \* the search's local robots
    n_page,            \* pages the current search has requested
    n_todo,            \* stubs of the current source not yet processed
    n_req,             \* the request issued last
    in_flight,         \* HTTP requests issued and not yet answered
    l_pc,              \* stub loops side by side: "input" or "done"
    l_stubs,           \* the stubs both loops are given
    l_seeded,          \* the known-URL set both loops start from
    l_details,         \* per job_id, the text fetch_linkedin_job_detail returns
    l_fetch_details,   \* the fetch_details argument
    l_scrape,          \* what _scrape_source_linkedin handed to db.add
    l_deep,            \* what run_deep_research handed to db.add
    p_pc,              \* a search by counts: "idle", "loop" or "returned"
    p_site,            \* which search
    p_max_results,     \* its max_results
    p_start,           \* its page offset
    p_len,             \* len(all_jobs)
    p_returned,        \* len of the list it returned
    c_store,           \* two runs: job_url of every committed row
    c_pc,              \* per run: "idle", "running" or "flushing"
    c_existing,        \* per run: its existing_urls
    c_added            \* per run: job_url of the rows it added and has not committed

scrapeVars == <<report, result, src_i>>
deepVars == <<companies, comp_i, company_new, total_new, company_results, events,
              delivered, dep>>
fetchVars == <<f_pc, f_retries, f_attempt, f_requests, f_waits, f_last_error,
               f_outcomes, f_raised, f_response>>
runVars == <<scraping_enabled, store, call, pc, args, existing_urls, session, report,
             result, src_i, start, all_jobs, stubs, stub_i, pages_ok, pages_failed,

             last_page_empty, http_requests, detail_failed, companies, comp_i, company_new, total_new,
             company_results,
             events, delivered, dep>>
politeVars == <<robots_cache, robots_reads, robots_hit, n_pc, n_sources, n_i, n_robots,
                n_page, n_todo, n_req, in_flight>>
loopVars == <<l_pc, l_stubs, l_seeded, l_details, l_fetch_details, l_scrape, l_deep>>
pageVars == <<p_pc, p_site, p_max_results, p_start, p_len, p_returned>>
concVars == <<c_store, c_pc, c_existing, c_added>>
auxVars == <<politeVars, loopVars, pageVars, concVars>>
vars == <<runVars, fetchVars, auxVars>>

SourceNames == {"indeed", "linkedin", "glassdoor"}
KnownSources == {"indeed", "linkedin"}
NoSources == <<"None">>
DefaultSources == <<"indeed", "linkedin">>
MaxResultsChoices == {1, 12}

NoArgs == [sources |-> <<>>, max_results |-> 0, fetch_details |-> FALSE]
NoResult == [source |-> "", jobs_found |-> 0, jobs_new |-> 0,
             jobs_skipped_duplicate |-> 0, jobs_enriched |-> 0, errors |-> <<>>]
ScrapeResult(source) == [NoResult EXCEPT !.source = source]
ScrapeReport == [results |-> <<>>, total_new |-> 0]
FreshSession == [new |-> <<>>, failed |-> FALSE]

SessionUrls(s) == {s.new[i].job_url : i \in 1..Len(s.new)}

NoError == [kind |-> "none", attempt |-> 0]

\* No fetch_with_retry call is under way.
FetchIdle ==
    /\ f_pc = "idle"
    /\ f_retries = 0
    /\ f_attempt = 0
    /\ f_requests = 0
    /\ f_waits = <<>>
    /\ f_last_error = NoError
    /\ f_outcomes = <<>>
    /\ f_raised = NoError
    /\ f_response = ""

\* No run_scrape or deep-scrape call is under way and the jobs table is empty.
RunIdle ==
    /\ store = {}
    /\ call = "none"
    /\ pc = "idle"
    /\ args = NoArgs
    /\ existing_urls = {}
    /\ session = FreshSession
    /\ report = ScrapeReport
    /\ result = NoResult
    /\ src_i = 0
    /\ start = 0
    /\ all_jobs = <<>>
    /\ stubs = <<>>
    /\ stub_i = 0
    /\ pages_ok = 0
    /\ last_page_empty = FALSE
    /\ pages_failed = 0
    /\ http_requests = 0
    /\ detail_failed = FALSE
    /\ companies = <<>>
    /\ comp_i = 0
    /\ company_new = 0
    /\ total_new = 0
    /\ company_results = <<>>
    /\ events = <<>>
    /\ delivered = <<>>
    /\ dep = "none"

INDEED_DOMAIN == "www.indeed.com"
LINKEDIN_DOMAIN == "www.linkedin.com"
Domains == {INDEED_DOMAIN, LINKEDIN_DOMAIN}
DomainOf(site) == IF site = "indeed" THEN INDEED_DOMAIN ELSE LINKEDIN_DOMAIN

\* The two concurrent runs of the two-run model.
Runs == {1, 2}

\* RobotFileParser(): nothing read, no rule, neither flag set.
RobotFileParser ==
    [last_checked |-> FALSE, allow_all |-> FALSE, disallow_all |-> FALSE, disallowed |-> {}]

NoRequest == [site |-> "", kind |-> "none", permitted |-> TRUE]

\* _robots_cache = {} and no request-level run under way.
PoliteIdle ==
    /\ robots_cache = [d \in {} |-> RobotFileParser]
    /\ robots_reads = [d \in Domains |-> <<>>]
    /\ robots_hit = [d \in Domains |-> FALSE]
    /\ n_pc = "idle"
    /\ n_sources = <<>>
    /\ n_i = 0
    /\ n_robots = RobotFileParser
    /\ n_page = 0
    /\ n_todo = 0
    /\ n_req = NoRequest
    /\ in_flight = 0

\* The two stub loops have been given nothing.
LoopIdle ==
    /\ l_pc = "idle"
    /\ l_stubs = <<>>
    /\ l_seeded = {}
    /\ l_details = [k \in Keys |-> ""]
    /\ l_fetch_details = FALSE
    /\ l_scrape = <<>>
    /\ l_deep = <<>>

\* No search by counts is under way.
PageIdle ==
    /\ p_pc = "idle"
    /\ p_site = ""
    /\ p_max_results = 0
    /\ p_start = 0
    /\ p_len = 0
    /\ p_returned = 0

\* Neither of the two runs has started and the jobs table is empty.
ConcIdle ==
    /\ c_store = {}
    /\ c_pc = [r \in Runs |-> "idle"]
    /\ c_existing = [r \in Runs |-> {}]
    /\ c_added = [r \in Runs |-> {}]

AuxIdle == PoliteIdle /\ LoopIdle /\ PageIdle /\ ConcIdle

\* A fresh process with scraping enabled: nothing cached, nothing running.
AuxInit ==
    /\ scraping_enabled = TRUE
    /\ RunIdle
    /\ FetchIdle
    /\ AuxIdle

Init ==
    /\ scraping_enabled \in BOOLEAN
    /\ RunIdle
    /\ FetchIdle
    /\ AuxIdle

\* The call is over: its locals are dropped.
Idle(newStore) ==
    /\ store' = newStore
    /\ call' = "none"
    /\ pc' = "idle"
    /\ args' = NoArgs
    /\ existing_urls' = {}
    /\ session' = FreshSession
    /\ report' = ScrapeReport
    /\ result' = NoResult
    /\ src_i' = 0
    /\ start' = 0
    /\ all_jobs' = <<>>
    /\ stubs' = <<>>
    /\ stub_i' = 0
    /\ pages_ok' = 0
    /\ last_page_empty' = FALSE
    /\ pages_failed' = 0
    /\ http_requests' = 0
    /\ detail_failed' = FALSE
    /\ companies' = <<>>
    /\ comp_i' = 0
    /\ company_new' = 0
    /\ total_new' = 0
    /\ company_results' = <<>>
    /\ events' = <<>>
    /\ delivered' = <<>>
    /\ dep' = "none"
    /\ UNCHANGED <<scraping_enabled, fetchVars, auxVars>>

\* -------------------------------------------------------------- run_scrape
\* if url in existing_urls
\* The duplicate check that never finds a URL
UrlKnown_Never(url, urls) == FALSE

UrlKnown(url, urls) == url \in urls

\* existing_urls.add(url)
\* A run that forgets to mark the URL it has just added
MarkSeen_Forgets(urls, url) == urls

MarkSeen(urls, url) == urls \cup {url}

\* result.errors.append(f"Search failed: ...")
\* The error of a failed search recorded twice
SearchFailed_Twice(r) ==
    [r EXCEPT !.errors = Append(Append(@, "Search failed"), "Search failed")]

SearchFailed(r) == [r EXCEPT !.errors = Append(@, "Search failed")]

\* report.results.append(sr)
\* A report that leaves out the outcome of a source whose search failed
AppendOutcome_DropsFailed(results, sr) ==
    IF sr.errors # <<>> THEN results ELSE Append(results, sr)

AppendOutcome(results, sr) == Append(results, sr)

\* A conversion that does not pass the description on
stub_to_job_DropsDescription(stub, description) ==
    [company_name |-> IF stub.company_name # "" THEN stub.company_name ELSE "Unknown",
     job_title |-> IF stub.job_title # "" THEN stub.job_title ELSE "Unknown",
     job_description |-> "",
     job_url |-> stub.job_url,
     source |-> stub.source]

\* _stub_to_job
stub_to_job(stub, description) ==
    [company_name |-> IF stub.company_name # "" THEN stub.company_name ELSE "Unknown",
     job_title |-> IF stub.job_title # "" THEN stub.job_title ELSE "Unknown",
     job_description |-> IF description # "" THEN description ELSE stub.snippet,
     job_url |-> stub.job_url,
     source |-> stub.source]

\* A run that scrapes although scraping is disabled
RunScrapeDisabled_Proceeds ==
    /\ call = "none"
    /\ ~scraping_enabled
    /\ \E sources \in {NoSources} \cup SeqsUpTo(SourceNames, MaxSources),
          max_per_source \in MaxResultsChoices, fetch_details \in BOOLEAN :
         args' = [sources |-> IF sources = NoSources THEN DefaultSources ELSE sources,
                  max_results |-> max_per_source, fetch_details |-> fetch_details]
    /\ call' = "run_scrape"
    /\ existing_urls' = store
    /\ report' = ScrapeReport
    /\ src_i' = 1
    /\ pc' = "sources"
    /\ UNCHANGED <<fetchVars, auxVars, detail_failed,
                   scraping_enabled, store, session, result, start, all_jobs, stubs,
                   stub_i, pages_ok, last_page_empty, pages_failed, http_requests,
                   deepVars>>

\* run_scrape is entered; scraping is disabled: the empty report is returned.
RunScrapeDisabled ==
    /\ call = "none"
    /\ ~scraping_enabled
    /\ \E sources \in {NoSources} \cup SeqsUpTo(SourceNames, MaxSources),
          max_per_source \in MaxResultsChoices, fetch_details \in BOOLEAN :
         args' = [sources |-> sources, max_results |-> max_per_source,
                  fetch_details |-> fetch_details]
    /\ call' = "run_scrape"
    /\ pc' = "returned"
    /\ report' = ScrapeReport
    /\ UNCHANGED <<fetchVars, auxVars, detail_failed,
                   scraping_enabled, store, existing_urls, session, result, src_i, start,
                   all_jobs, stubs, stub_i, pages_ok,
                   last_page_empty, pages_failed, http_requests,
                   deepVars>>

\* run_scrape is entered; the known URLs are loaded from the jobs table.
RunScrape ==
    /\ call = "none"
    /\ scraping_enabled
    /\ \E sources \in {NoSources} \cup SeqsUpTo(SourceNames, MaxSources),
          max_per_source \in MaxResultsChoices, fetch_details \in BOOLEAN :
         args' = [sources |-> IF sources = NoSources THEN DefaultSources ELSE sources,
                  max_results |-> max_per_source, fetch_details |-> fetch_details]
    /\ call' = "run_scrape"
    /\ existing_urls' = store
    /\ report' = ScrapeReport
    /\ src_i' = 1
    /\ pc' = "sources"
    /\ UNCHANGED <<fetchVars, auxVars, detail_failed,
                   scraping_enabled, store, session, result, start, all_jobs, stubs,
                   stub_i, pages_ok, last_page_empty, pages_failed, http_requests,
                   deepVars>>

\* _get_existing_urls raises: run_scrape raises before any source is tried.
RunScrapeDbError ==
    /\ call = "none"
    /\ scraping_enabled
    /\ \E sources \in {NoSources} \cup SeqsUpTo(SourceNames, MaxSources),
          max_per_source \in MaxResultsChoices, fetch_details \in BOOLEAN :
         args' = [sources |-> IF sources = NoSources THEN DefaultSources ELSE sources,
                  max_results |-> max_per_source, fetch_details |-> fetch_details]
    /\ call' = "run_scrape"
    /\ pc' = "raised"
    /\ UNCHANGED <<fetchVars, auxVars, detail_failed,
                   scraping_enabled, store, existing_urls, session, report, result, src_i,
                   start, all_jobs, stubs, stub_i, pages_ok,
                   last_page_empty, pages_failed, http_requests,
                   deepVars>>

\* for source in sources: an unknown name is logged and skipped.
SkipUnknownSource ==
    /\ call = "run_scrape" /\ pc = "sources"
    /\ src_i <= Len(args.sources)
    /\ args.sources[src_i] \notin KnownSources
    /\ src_i' = src_i + 1
    /\ UNCHANGED <<fetchVars, auxVars, detail_failed,
                   scraping_enabled, store, call, pc, args, existing_urls, session, report,
                   result, start, all_jobs, stubs, stub_i, pages_ok,
                   last_page_empty, pages_failed,
                   http_requests,
                   deepVars>>

\* _scrape_source_indeed / _scrape_source_linkedin is entered and its search begins.
BeginSource ==
    /\ call = "run_scrape" /\ pc = "sources"
    /\ src_i <= Len(args.sources)
    /\ args.sources[src_i] \in KnownSources
    /\ result' = ScrapeResult(args.sources[src_i])
    /\ start' = 0
    /\ all_jobs' = <<>>
    /\ pages_ok' = 0
    /\ last_page_empty' = FALSE
    /\ pages_failed' = 0
    /\ pc' = "search"
    /\ UNCHANGED <<fetchVars, auxVars, detail_failed,
                   scraping_enabled, store, call, args, existing_urls, session, report,
                   src_i, stubs, stub_i, http_requests,
                   deepVars>>

\* A page loop that goes on to the next page after a page without stubs
SearchAfterPage_SkipsEmpty(all, cards, site, max_results, st) ==
    LET page_jobs == parse_search_html(cards, site)
        merged == MergePage(all, page_jobs, max_results)
    IN [returned |-> Len(merged) >= max_results
                     \/ st + PageStep(site) >= Min(max_results, MAX_RESULTS_CAP),
        jobs |-> merged]

\* One iteration of the search's page loop (scrape_indeed_search /
\* scrape_linkedin_search) on a fetched page: parse, stop on an empty page, merge,
\* stop at max_results or when range(0, min(max_results, 50), step) is exhausted.
\* [returned: whether the search returns now, jobs: all_jobs]
SearchAfterPage(all, cards, site, max_results, st) ==
    LET page_jobs == parse_search_html(cards, site)
        merged == MergePage(all, page_jobs, max_results)
    IN IF page_jobs = <<>> THEN [returned |-> TRUE, jobs |-> all]
       ELSE [returned |-> Len(merged) >= max_results
                          \/ st + PageStep(site) >= Min(max_results, MAX_RESULTS_CAP),
             jobs |-> merged]

\* A source that does not record how many stubs its search returned
SearchReturns_NoCount(found) ==
    /\ stubs' = Take(found, args.max_results)
    /\ result' = result
    /\ stub_i' = 1
    /\ all_jobs' = <<>>
    /\ start' = 0
    /\ pc' = "stubs"

\* The source's search returned found: jobs_found is set and the stub loop begins.
SearchReturns(found) ==
    /\ stubs' = Take(found, args.max_results)
    /\ result' = [result EXCEPT !.jobs_found = Len(Take(found, args.max_results))]
    /\ stub_i' = 1
    /\ all_jobs' = <<>>
    /\ start' = 0
    /\ pc' = "stubs"

\* fetch_with_retry raised after its retries: the search logs it and breaks.
SearchFetchFails ==
    /\ call = "run_scrape" /\ pc = "search"
    /\ http_requests' = http_requests + 1
    /\ pages_failed' = pages_failed + 1
    /\ SearchReturns(all_jobs)
    /\ UNCHANGED <<fetchVars, auxVars, detail_failed,
                   scraping_enabled, store, call, args, existing_urls, session, report,
                   src_i, pages_ok, last_page_empty,
                   deepVars>>

\* A result page was fetched.
SearchPage ==
    /\ call = "run_scrape" /\ pc = "search"
    /\ http_requests' = http_requests + 1
    /\ pages_ok' = pages_ok + 1
    /\ \E cards \in SeqsUpTo(RawCards, MaxCards) :
         /\ last_page_empty' = (parse_search_html(cards, result.source) = <<>>)
         /\ LET after == SearchAfterPage(all_jobs, cards, result.source,
                                         args.max_results, start)
            IN IF after.returned
               THEN SearchReturns(after.jobs)
               ELSE /\ all_jobs' = after.jobs
                    /\ start' = start + PageStep(result.source)
                    /\ UNCHANGED <<stubs, result, stub_i, pc>>
    /\ UNCHANGED <<fetchVars, auxVars, detail_failed,
                   scraping_enabled, store, call, args, existing_urls, session, report,
                   src_i, pages_failed,
                   deepVars>>

\* The search raised (an exception it does not catch itself, as from the parser of a
\* fetched page): "Search failed" is recorded and the source returns its result.
SearchRaises ==
    /\ call = "run_scrape" /\ pc = "search"
    /\ http_requests' = http_requests + 1
    /\ pages_ok' = pages_ok + 1
    /\ last_page_empty' = FALSE
    /\ result' = SearchFailed(result)
    /\ all_jobs' = <<>>
    /\ start' = 0
    /\ pc' = "source_done"
    /\ UNCHANGED <<fetchVars, auxVars, detail_failed,
                   scraping_enabled, store, call, args, existing_urls, session, report,
                   src_i, stubs, stub_i, pages_failed,
                   deepVars>>

\* for stub in stubs: the URL is known already.
SkipDuplicateStub ==
    /\ call = "run_scrape" /\ pc = "stubs"
    /\ stub_i <= Len(stubs)
    /\ UrlKnown(stubs[stub_i].job_url, existing_urls)
    /\ result' = [result EXCEPT !.jobs_skipped_duplicate = @ + 1]
    /\ stub_i' = stub_i + 1
    /\ UNCHANGED <<fetchVars, auxVars, detail_failed,
                   scraping_enabled, store, call, pc, args, existing_urls, session, report,
                   src_i, start, all_jobs, stubs, pages_ok,
                   last_page_empty, pages_failed, http_requests,
                   deepVars>>

\* Whether the source's loop fetches the detail page of stub.
DetailAttempted(stub, fetch_details) ==
    fetch_details /\ (IF stub.source = "indeed" THEN stub.job_url # <<>> ELSE stub.job_id # 0)

\* What fetch_indeed_job_detail / fetch_linkedin_job_detail can return: the extracted
\* text, or "" (the fetch failed after its retries, or the page has no description).
DetailTexts == {"", DetailText}

\* How a detail fetch can end: fetch_with_retry raised, or the page came back with or
\* without a description in it.
DetailOutcomes == {"failed", "no_description", "text"}

\* A variant that lets the failure of fetch_with_retry out of the detail function.
fetch_job_detail_Propagates(outcome) ==
    [raised |-> outcome = "failed", text |-> IF outcome = "text" THEN DetailText ELSE ""]

\* fetch_indeed_job_detail / fetch_linkedin_job_detail: the try around the fetch and the
\* parse catches Exception and returns "", so the call never raises.
fetch_job_detail(outcome) ==
    [raised |-> FALSE, text |-> IF outcome = "text" THEN DetailText ELSE ""]

\* A variant that discards every stub with too little text, titled or not.
TooSparse_IgnoresTitle(stub, description) ==
    StrLen(description) < MIN_CONTENT_LEN

\* if len(description.strip()) < 20 and not stub.get("job_title"): continue
TooSparse(stub, description) ==
    StrLen(description) < MIN_CONTENT_LEN /\ stub.job_title = ""

\* for stub in stubs: a new URL is enriched, converted and added to the session; a
\* detail call that raises is recorded as "Detail fetch" and the stub goes on.
ProcessNewStub ==
    /\ call = "run_scrape" /\ pc = "stubs"
    /\ stub_i <= Len(stubs)
    /\ ~UrlKnown(stubs[stub_i].job_url, existing_urls)
    /\ \E outcome \in DetailOutcomes :
         LET stub == stubs[stub_i]
             attempted == DetailAttempted(stub, args.fetch_details)
             fetched == fetch_job_detail(outcome)
             detail == IF attempted THEN fetched.text ELSE ""
             errors == IF attempted /\ fetched.raised
                       THEN Append(result.errors, "Detail fetch") ELSE result.errors
             description == IF detail # "" THEN detail ELSE stub.snippet
             enriched == IF detail # "" THEN 1 ELSE 0
         IN /\ http_requests' = http_requests + (IF attempted THEN 1 ELSE 0)
            /\ detail_failed' = (attempted /\ outcome = "failed")
            /\ IF TooSparse(stub, description)
               THEN /\ result' = [result EXCEPT !.jobs_enriched = @ + enriched,
                                                !.errors = errors]
                    /\ UNCHANGED <<session, existing_urls>>
               ELSE /\ session' = [session EXCEPT
                                     !.new = Append(@, stub_to_job(stub, description))]
                    /\ existing_urls' = MarkSeen(existing_urls, stub.job_url)
                    /\ result' = [result EXCEPT !.jobs_enriched = @ + enriched,
                                                !.jobs_new = @ + 1,
                                                !.errors = errors]
    /\ stub_i' = stub_i + 1
    /\ UNCHANGED <<fetchVars, auxVars,
                   scraping_enabled, store, call, pc, args, report, src_i, start, all_jobs,
                   stubs, pages_ok, last_page_empty, pages_failed,
                   deepVars>>

\* _scrape_source_* returned: report.results.append(sr); report.total_new += sr.jobs_new
SourceReturns ==
    /\ call = "run_scrape"
    /\ \/ pc = "stubs" /\ stub_i > Len(stubs)
       \/ pc = "source_done"
    /\ report' = [results |-> AppendOutcome(report.results, result),
                  total_new |-> report.total_new + result.jobs_new]
    /\ result' = NoResult
    /\ stubs' = <<>>
    /\ stub_i' = 0
    /\ pages_ok' = 0
    /\ last_page_empty' = FALSE
    /\ pages_failed' = 0
    /\ src_i' = src_i + 1
    /\ pc' = "sources"
    /\ UNCHANGED <<fetchVars, auxVars, detail_failed,
                   scraping_enabled, store, call, args, existing_urls, session, start,
                   all_jobs, http_requests,
                   deepVars>>

\* The source loop is over: flush when something is new, and return the report.
RunScrapeReturns ==
    /\ call = "run_scrape" /\ pc = "sources"
    /\ src_i > Len(args.sources)
    /\ pc' = "returned"
    /\ UNCHANGED <<fetchVars, auxVars, detail_failed,
                   scraping_enabled, store, call, args, existing_urls, session, report,
                   result, src_i, start, all_jobs, stubs, stub_i, pages_ok,
                   last_page_empty, pages_failed,
                   http_requests,
                   deepVars>>

\* db.flush() raises: run_scrape raises and no report is returned.
RunScrapeFlushError ==
    /\ call = "run_scrape" /\ pc = "sources"
    /\ src_i > Len(args.sources)
    /\ report.total_new > 0
    /\ session' = [session EXCEPT !.failed = TRUE]
    /\ pc' = "raised"
    /\ UNCHANGED <<fetchVars, auxVars, detail_failed,
                   scraping_enabled, store, call, args, existing_urls, report, result,
                   src_i, start, all_jobs, stubs, stub_i, pages_ok,
                   last_page_empty, pages_failed,
                   http_requests,
                   deepVars>>

\* The caller of run_scrape commits the session ("caller must commit after").
CallerCommits ==
    /\ call = "run_scrape" /\ pc = "returned"
    /\ Idle(store \cup SessionUrls(session))

\* The caller of run_scrape drops the session: the run raised, or the commit failed.
CallerRollsBack ==
    /\ call = "run_scrape" /\ pc \in {"returned", "raised"}
    /\ Idle(store)

\* ------------------------------------------------------ run_deep_research
MaxJobsChoices == {1, 5}

\* DeepResearchProgress: one record shape for every event kind; a field an event
\* kind does not carry keeps its default.
Progress(kind) ==
    [event |-> kind, index |-> 0, total |-> 0, company |-> 0, found |-> 0, new |-> 0,
     status |-> "", message |-> "", total_new |-> 0, results |-> <<>>]

\* DeepResearchProgress.to_sse: "event: <event>\ndata: <json of data>\n\n"
to_sse(progress) == [sse_event |-> progress.event, sse_data |-> progress]

\* The frame event_stream writes itself when the stream raised.
StreamErrorFrame ==
    [sse_event |-> "error", sse_data |-> [Progress("error") EXCEPT !.message = "Stream error"]]

\* A producer that runs ahead of its consumer: the event is kept, not handed over
Yield_Buffered(progress) ==
    /\ events' = Append(events, progress)
    /\ delivered' = delivered

\* run_deep_research yields progress; event_stream yields its frame to the response.
Yield(progress) ==
    /\ events' = Append(events, progress)
    /\ delivered' = Append(delivered, to_sse(progress))

\* The LLM's "companies" value: not a list, or a list whose item k is usable (a dict
\* with a name, here the name k) or not.
RawCompanies ==
    {[is_list |-> FALSE, items |-> <<>>]}
        \cup {[is_list |-> TRUE, items |-> s] : s \in SeqsUpTo(BOOLEAN, MaxTargets)}

RECURSIVE UsableNames(_, _)
UsableNames(raw, k) ==
    IF k > Len(raw) THEN <<>>
    ELSE (IF raw[k] THEN <<k>> ELSE <<>>) \o UsableNames(raw, k + 1)

\* _research_companies on the LLM's answer
research_companies(raw) ==
    IF ~raw.is_list THEN <<>> ELSE Take(UsableNames(raw.items, 1), MAX_COMPANIES)

\* The deep_scrape route: get_db yields the session, the StreamingResponse is returned
\* with the event_stream generator not yet started.
DeepScrape ==
    /\ call = "none"
    /\ scraping_enabled
    /\ \E max_jobs_per_company \in MaxJobsChoices, fetch_details \in BOOLEAN :
         args' = [sources |-> <<>>, max_results |-> max_jobs_per_company,
                  fetch_details |-> fetch_details]
    /\ call' = "deep_scrape"
    /\ pc' = "created"
    /\ dep' = "open"
    /\ UNCHANGED <<fetchVars, auxVars, detail_failed,
                   scraping_enabled, store, existing_urls, session, scrapeVars, start,
                   all_jobs, stubs, stub_i, pages_ok,
                   last_page_empty, pages_failed, http_requests,
                   companies, comp_i, company_new, total_new, company_results, events,
                   delivered>>

\* First pull: research_start is yielded.
DeepResearchStart ==
    /\ call = "deep_scrape" /\ pc = "created"
    /\ Yield(Progress("research_start"))
    /\ pc' = "y_research_start"
    /\ UNCHANGED <<fetchVars, auxVars, detail_failed,
                   scraping_enabled, store, call, args, existing_urls, session, scrapeVars,
                   start, all_jobs, stubs, stub_i, pages_ok,
                   last_page_empty, pages_failed, http_requests,
                   companies, comp_i, company_new, total_new, company_results, dep>>

\* if not companies
\* A pipeline that goes on with an empty company list
NoCompanies_Never(found) == FALSE

NoCompanies(found) == found = <<>>

\* The company_done event of a company whose search raised
\* A failed search reported like a search that found nothing
company_done_error_AsDone(company) ==
    [Progress("company_done") EXCEPT
       !.company = company, !.found = 0, !.new = 0, !.status = "done"]

company_done_error(company) ==
    [Progress("company_done") EXCEPT
       !.company = company, !.found = 0, !.new = 0, !.status = "error",
       !.message = "search error"]

\* A variant that reports every stub found as new.
company_done_ok_NewIsFound(company, found, new) ==
    [Progress("company_done") EXCEPT
       !.company = company, !.found = found, !.new = found, !.status = "done"]

\* The company_done event of a company whose search returned found stubs
company_done_ok(company, found, new) ==
    [Progress("company_done") EXCEPT
       !.company = company, !.found = found, !.new = new, !.status = "done"]

\* _research_companies raises (LLMServiceError or any other exception): error, return.
ResearchFails ==
    /\ call = "deep_scrape" /\ pc = "y_research_start"
    /\ \E message \in {"Research failed", "Unexpected error"} :
         Yield([Progress("error") EXCEPT !.message = message])
    /\ pc' = "y_error"
    /\ UNCHANGED <<fetchVars, auxVars, detail_failed,
                   scraping_enabled, store, call, args, existing_urls, session, scrapeVars,
                   start, all_jobs, stubs, stub_i, pages_ok,
                   last_page_empty, pages_failed, http_requests,
                   companies, comp_i, company_new, total_new, company_results, dep>>

\* _research_companies returns: no company is an error, else companies_found.
ResearchReturns ==
    /\ call = "deep_scrape" /\ pc = "y_research_start"
    /\ \E raw \in RawCompanies :
         LET found == research_companies(raw)
         IN IF NoCompanies(found)
            THEN /\ Yield([Progress("error") EXCEPT
                             !.message = "Could not identify companies"])
                 /\ pc' = "y_error"
                 /\ UNCHANGED companies
            ELSE /\ Yield([Progress("companies_found") EXCEPT !.total = Len(found)])
                 /\ pc' = "y_companies_found"
                 /\ companies' = found
    /\ UNCHANGED <<fetchVars, auxVars, detail_failed,
                   scraping_enabled, store, call, args, existing_urls, session, scrapeVars,
                   start, all_jobs, stubs, stub_i, pages_ok,
                   last_page_empty, pages_failed, http_requests,
                   comp_i, company_new, total_new, company_results, dep>>

\* yield searching_company for companies[k]
\* searching_company announced with a 1-based index
YieldSearching_OneBased(k) ==
    Yield([Progress("searching_company") EXCEPT
             !.index = k, !.total = Len(companies), !.company = companies[k]])

YieldSearching(k) ==
    Yield([Progress("searching_company") EXCEPT
             !.index = k - 1, !.total = Len(companies), !.company = companies[k]])

\* Phase 2 begins: the known URLs are loaded and the first company is announced.
DeepLoadExisting ==
    /\ call = "deep_scrape" /\ pc = "y_companies_found"
    /\ existing_urls' = store
    /\ total_new' = 0
    /\ company_results' = <<>>
    /\ IF companies = <<>>
       THEN /\ Yield(Progress("complete"))
            /\ pc' = "y_complete"
            /\ UNCHANGED comp_i
       ELSE /\ YieldSearching(1)
            /\ pc' = "y_searching"
            /\ comp_i' = 1
    /\ UNCHANGED <<fetchVars, auxVars, detail_failed,
                   scraping_enabled, store, call, args, session, scrapeVars, start,
                   all_jobs, stubs, stub_i, pages_ok,
                   last_page_empty, pages_failed, http_requests,
                   companies, company_new, dep>>

\* The generator raised: event_stream's except writes its own error frame.
StreamRaises ==
    /\ delivered' = Append(delivered, StreamErrorFrame)
    /\ pc' = "y_stream_error"

\* _get_existing_urls raises inside the generator.
DeepLoadExistingError ==
    /\ call = "deep_scrape" /\ pc = "y_companies_found"
    /\ StreamRaises
    /\ UNCHANGED <<fetchVars, auxVars, detail_failed,
                   scraping_enabled, store, call, args, existing_urls, session, scrapeVars,
                   start, all_jobs, stubs, stub_i, pages_ok,
                   last_page_empty, pages_failed, http_requests,
                   companies, comp_i, company_new, total_new, company_results, events,
                   dep>>

\* The pull after searching_company resumes the generator at its search.
DeepBeginSearch ==
    /\ call = "deep_scrape" /\ pc = "y_searching"
    /\ start' = 0
    /\ all_jobs' = <<>>
    /\ pages_ok' = 0
    /\ last_page_empty' = FALSE
    /\ pages_failed' = 0
    /\ pc' = "d_search"
    /\ UNCHANGED <<fetchVars, auxVars, detail_failed,
                   scraping_enabled, store, call, args, existing_urls, session, scrapeVars,
                   stubs, stub_i, http_requests, deepVars>>

\* scrape_linkedin_search returned found: the stub loop of the company begins.
DeepSearchReturns(found) ==
    /\ stubs' = Take(found, args.max_results)
    /\ stub_i' = 1
    /\ company_new' = 0
    /\ all_jobs' = <<>>
    /\ start' = 0
    /\ pc' = "d_stubs"

DeepSearchFetchFails ==
    /\ call = "deep_scrape" /\ pc = "d_search"
    /\ http_requests' = http_requests + 1
    /\ pages_failed' = pages_failed + 1
    /\ DeepSearchReturns(all_jobs)
    /\ UNCHANGED <<fetchVars, auxVars, detail_failed,
                   scraping_enabled, store, call, args, existing_urls, session, scrapeVars,
                   pages_ok,
                   last_page_empty, companies, comp_i, total_new, company_results, events,
                   delivered, dep>>

DeepSearchPage ==
    /\ call = "deep_scrape" /\ pc = "d_search"
    /\ http_requests' = http_requests + 1
    /\ pages_ok' = pages_ok + 1
    /\ \E cards \in SeqsUpTo(RawCards, MaxCards) :
         /\ last_page_empty' = (parse_search_html(cards, "linkedin") = <<>>)
         /\ LET after == SearchAfterPage(all_jobs, cards, "linkedin",
                                         args.max_results, start)
            IN IF after.returned
               THEN DeepSearchReturns(after.jobs)
               ELSE /\ all_jobs' = after.jobs
                    /\ start' = start + PageStep("linkedin")
                    /\ UNCHANGED <<stubs, stub_i, company_new, pc>>
    /\ UNCHANGED <<fetchVars, auxVars, detail_failed,
                   scraping_enabled, store, call, args, existing_urls, session, scrapeVars,
                   pages_failed, companies, comp_i, total_new, company_results, events,
                   delivered, dep>>

\* The search raised: company_done with status "error" is yielded.
DeepSearchRaises ==
    /\ call = "deep_scrape" /\ pc = "d_search"
    /\ http_requests' = http_requests + 1
    /\ pages_ok' = pages_ok + 1
    /\ last_page_empty' = FALSE
    /\ Yield(company_done_error(companies[comp_i]))
    /\ all_jobs' = <<>>
    /\ start' = 0
    /\ stubs' = <<>>
    /\ company_new' = 0
    /\ pc' = "y_company_done"
    /\ UNCHANGED <<fetchVars, auxVars, detail_failed,
                   scraping_enabled, store, call, args, existing_urls, session, scrapeVars,
                   stub_i, pages_failed, companies, comp_i, total_new, company_results,
                   dep>>

DeepSkipDuplicateStub ==
    /\ call = "deep_scrape" /\ pc = "d_stubs"
    /\ stub_i <= Len(stubs)
    /\ UrlKnown(stubs[stub_i].job_url, existing_urls)
    /\ stub_i' = stub_i + 1
    /\ UNCHANGED <<fetchVars, auxVars, detail_failed,
                   scraping_enabled, store, call, pc, args, existing_urls, session,
                   scrapeVars, start, all_jobs, stubs, pages_ok,
                   last_page_empty, pages_failed,
                   http_requests, deepVars>>

\* Job(...) as run_deep_research builds it
deep_job(stub, description, company) ==
    [company_name |-> IF stub.company_name # "" THEN stub.company_name ELSE company,
     job_title |-> IF stub.job_title # "" THEN stub.job_title ELSE "Unknown",
     job_description |-> description,
     job_url |-> stub.job_url,
     source |-> "deep_research"]

DeepProcessNewStub ==
    /\ call = "deep_scrape" /\ pc = "d_stubs"
    /\ stub_i <= Len(stubs)
    /\ ~UrlKnown(stubs[stub_i].job_url, existing_urls)
    /\ \E fetched \in DetailTexts :
         LET stub == stubs[stub_i]
             attempted == args.fetch_details /\ stub.job_id # 0
             detail == IF attempted THEN fetched ELSE ""
             description == IF detail # "" THEN detail ELSE stub.snippet
         IN /\ http_requests' = http_requests + (IF attempted THEN 1 ELSE 0)
            /\ session' = [session EXCEPT
                             !.new = Append(@, deep_job(stub, description, companies[comp_i]))]
            /\ existing_urls' = MarkSeen(existing_urls, stub.job_url)
    /\ company_new' = company_new + 1
    /\ total_new' = total_new + 1
    /\ stub_i' = stub_i + 1
    /\ UNCHANGED <<fetchVars, auxVars, detail_failed,
                   scraping_enabled, store, call, pc, args, scrapeVars, start, all_jobs,
                   stubs, pages_ok,
                   last_page_empty, pages_failed, companies, comp_i, company_results,
                   events, delivered, dep>>

\* The stub loop is over: flush when something is new, yield company_done.
DeepCompanyDone ==
    /\ call = "deep_scrape" /\ pc = "d_stubs"
    /\ stub_i > Len(stubs)
    /\ Yield(company_done_ok(companies[comp_i], Len(stubs), company_new))
    /\ pc' = "y_company_done"
    /\ UNCHANGED <<fetchVars, auxVars, detail_failed,
                   scraping_enabled, store, call, args, existing_urls, session, scrapeVars,
                   start, all_jobs, stubs, stub_i, pages_ok,
                   last_page_empty, pages_failed, http_requests,
                   companies, comp_i, company_new, total_new, company_results, dep>>

\* db.flush() raises inside the generator: the session's transaction is rolled back
\* and unusable until rollback().
DeepFlushError ==
    /\ call = "deep_scrape" /\ pc = "d_stubs"
    /\ stub_i > Len(stubs)
    /\ company_new > 0
    /\ session' = [new |-> <<>>, failed |-> TRUE]
    /\ StreamRaises
    /\ UNCHANGED <<fetchVars, auxVars, detail_failed,
                   scraping_enabled, store, call, args, existing_urls, scrapeVars, start,
                   all_jobs, stubs, stub_i, pages_ok,
                   last_page_empty, pages_failed, http_requests,
                   companies, comp_i, company_new, total_new, company_results, events,
                   dep>>

\* company_results.append(...) of the company whose company_done was just yielded
ResultAppended ==
    Append(company_results,
           [company |-> companies[comp_i], found |-> events[Len(events)].found,
            new |-> events[Len(events)].new, status |-> events[Len(events)].status])

\* The pull after company_done: the result is appended, the next company announced.
DeepNextCompany ==
    /\ call = "deep_scrape" /\ pc = "y_company_done"
    /\ comp_i < Len(companies)
    /\ company_results' = ResultAppended
    /\ comp_i' = comp_i + 1
    /\ YieldSearching(comp_i + 1)
    /\ stubs' = <<>>
    /\ stub_i' = 0
    /\ company_new' = 0
    /\ pc' = "y_searching"
    /\ UNCHANGED <<fetchVars, auxVars, detail_failed,
                   scraping_enabled, store, call, args, existing_urls, session, scrapeVars,
                   start, all_jobs, pages_ok,
                   last_page_empty, pages_failed, http_requests, companies,
                   total_new, dep>>

\* The pull after the last company_done: Phase 3, complete.
DeepComplete ==
    /\ call = "deep_scrape" /\ pc = "y_company_done"
    /\ comp_i = Len(companies)
    /\ company_results' = ResultAppended
    /\ Yield([Progress("complete") EXCEPT
                !.total_new = total_new, !.total = Len(companies),
                !.results = ResultAppended])
    /\ stubs' = <<>>
    /\ stub_i' = 0
    /\ company_new' = 0
    /\ pc' = "y_complete"
    /\ UNCHANGED <<fetchVars, auxVars, detail_failed,
                   scraping_enabled, store, call, args, existing_urls, session, scrapeVars,
                   start, all_jobs, pages_ok,
                   last_page_empty, pages_failed, http_requests, companies,
                   comp_i, total_new, dep>>

\* --------------------------------------------------- event_stream and get_db
\* The pull after the generator's last event: the generator returns and event_stream
\* commits ("Commit all new jobs after the stream completes successfully").
StreamCommits ==
    /\ call = "deep_scrape" /\ pc \in {"y_complete", "y_error"}
    /\ store' = store \cup SessionUrls(session)
    /\ session' = FreshSession
    /\ pc' = "stream_end"
    /\ UNCHANGED <<fetchVars, auxVars, detail_failed,
                   scraping_enabled, call, args, existing_urls, scrapeVars, start,
                   all_jobs, stubs, stub_i, pages_ok,
                   last_page_empty, pages_failed, http_requests,
                   deepVars>>

\* db.commit() raises in event_stream (the transaction the run opened cannot be
\* committed): the except branch writes an error frame.
StreamCommitFails ==
    /\ call = "deep_scrape" /\ pc = "y_complete"
    /\ session' = [new |-> <<>>, failed |-> TRUE]
    /\ StreamRaises
    /\ UNCHANGED <<fetchVars, auxVars, detail_failed,
                   scraping_enabled, store, call, args, existing_urls, scrapeVars, start,
                   all_jobs, stubs, stub_i, pages_ok,
                   last_page_empty, pages_failed, http_requests,
                   companies, comp_i, company_new, total_new, company_results, events,
                   dep>>

\* The pull after event_stream's own error frame: the stream ends.
StreamEndsAfterError ==
    /\ call = "deep_scrape" /\ pc = "y_stream_error"
    /\ pc' = "stream_end"
    /\ UNCHANGED <<fetchVars, auxVars, detail_failed,
                   scraping_enabled, store, call, args, existing_urls, session, scrapeVars,
                   start, all_jobs, stubs, stub_i, pages_ok,
                   last_page_empty, pages_failed, http_requests,
                   deepVars>>

StreamLive ==
    pc \in {"created", "y_research_start", "y_companies_found", "y_searching", "d_search",
            "d_stubs", "y_company_done", "y_complete", "y_error", "y_stream_error"}

\* The consumer stops pulling (the client disconnects, the response task is
\* cancelled): the generators are closed where they stand.
ConsumerStops ==
    /\ call = "deep_scrape" /\ StreamLive
    /\ pc' = "stream_aborted"
    /\ UNCHANGED <<fetchVars, auxVars, detail_failed,
                   scraping_enabled, store, call, args, existing_urls, session, scrapeVars,
                   start, all_jobs, stubs, stub_i, pages_ok,
                   last_page_empty, pages_failed, http_requests,
                   deepVars>>

\* get_db is resumed after its yield without an exception: session.commit(), which
\* raises on a session whose flush failed (then rollback), and session.close().
\* The framework resumes it before the response body is streamed or after the
\* stream is over, depending on its version.
GetDbExits ==
    /\ call = "deep_scrape" /\ dep = "open"
    /\ pc \in {"created", "stream_end", "stream_aborted"}
    /\ store' = IF session.failed THEN store ELSE store \cup SessionUrls(session)
    /\ session' = FreshSession
    /\ dep' = "closed"
    /\ UNCHANGED <<fetchVars, auxVars, detail_failed,
                   scraping_enabled, call, pc, args, existing_urls, scrapeVars, start,
                   all_jobs, stubs, stub_i, pages_ok,
                   last_page_empty, pages_failed, http_requests,
                   companies, comp_i, company_new, total_new, company_results, events,
                   delivered>>

\* get_db is resumed with an exception thrown in at its yield, or its commit raises:
\* rollback (close for an exception that is no Exception), no commit.
GetDbRollsBack ==
    /\ call = "deep_scrape" /\ dep = "open"
    /\ pc \in {"stream_end", "stream_aborted"}
    /\ session' = FreshSession
    /\ dep' = "closed"
    /\ UNCHANGED <<fetchVars, auxVars, detail_failed,
                   scraping_enabled, store, call, pc, args, existing_urls, scrapeVars,
                   start, all_jobs, stubs, stub_i, pages_ok,
                   last_page_empty, pages_failed, http_requests,
                   companies, comp_i, company_new, total_new, company_results, events,
                   delivered>>

\* The request is over: the session object is dropped with whatever it still holds.
RequestEnds ==
    /\ call = "deep_scrape" /\ dep = "closed"
    /\ pc \in {"stream_end", "stream_aborted"}
    /\ Idle(store)

Next ==
    \/ RunScrapeDisabled
    \/ RunScrape
    \/ RunScrapeDbError
    \/ SkipUnknownSource
    \/ BeginSource
    \/ SearchFetchFails
    \/ SearchPage
    \/ SearchRaises
    \/ SkipDuplicateStub
    \/ ProcessNewStub
    \/ SourceReturns
    \/ RunScrapeReturns
    \/ RunScrapeFlushError
    \/ CallerCommits
    \/ CallerRollsBack
    \/ DeepScrape
    \/ DeepResearchStart
    \/ ResearchFails
    \/ ResearchReturns
    \/ DeepLoadExisting
    \/ DeepLoadExistingError
    \/ DeepBeginSearch
    \/ DeepSearchFetchFails
    \/ DeepSearchPage
    \/ DeepSearchRaises
    \/ DeepSkipDuplicateStub
    \/ DeepProcessNewStub
    \/ DeepCompanyDone
    \/ DeepFlushError
    \/ DeepNextCompany
    \/ DeepComplete
    \/ StreamCommits
    \/ StreamCommitFails
    \/ StreamEndsAfterError
    \/ ConsumerStops
    \/ GetDbExits
    \/ GetDbRollsBack
    \/ RequestEnds

Spec == Init /\ [][Next]_vars

\* ---------------------------------------------------------- fetch_with_retry
MaxRetriesArg == 3
SCRAPING_MAX_RETRIES == 3

\* What one client.get followed by the status checks ends in: a status code, or the
\* exception the transport raised.
SuccessStatus == {"200"}
ThrottleStatus == {"429", "503"}
ErrorStatus == {"404", "500"}
TransportFailures == {"ConnectError", "ReadTimeout"}
UncaughtFailures == {"InvalidURL"}

\* random.uniform(0, 1), by its two ends
Jitters == {0, 1}

RECURSIVE Pow2(_)
Pow2(n) == IF n = 0 THEN 1 ELSE 2 * Pow2(n - 1)

\* A backoff that does not grow with the attempt
Backoff_Alternating(attempt) == Pow2(attempt % 2)

\* 2 ** attempt
Backoff(attempt) == Pow2(attempt)

Wait(attempt, jitter) == [attempt |-> attempt, det |-> Backoff(attempt), jitter |-> jitter]

\* A throttled response that is retried within the same attempt
AfterThrottle_SameAttempt(attempt) == attempt

\* continue: the for loop goes to its next attempt
AfterThrottle(attempt) == attempt + 1

\* A loop that allows one attempt more
Exhausted_OneMore(attempt, retries) == attempt > retries

\* for attempt in range(retries) is over
Exhausted(attempt, retries) == attempt >= retries

\* if last_error: raise last_error; raise RuntimeError(...)
RaisedWhenExhausted(last_error, retries) ==
    IF last_error # NoError THEN last_error
    ELSE [kind |-> "RuntimeError", attempt |-> retries]

\* fetch_with_retry(client, url, max_retries=...) is called; None and 0 give the setting.
FetchCall ==
    /\ f_pc = "idle"
    /\ \E max_retries \in 0..MaxRetriesArg :
         f_retries' = IF max_retries # 0 THEN max_retries ELSE SCRAPING_MAX_RETRIES
    /\ f_attempt' = 0
    /\ f_pc' = "loop"
    /\ UNCHANGED <<runVars, auxVars, f_requests, f_waits, f_last_error, f_outcomes, f_raised,
                   f_response>>

\* rate_limit_delay, then client.get, which ends in outcome.
Sent(outcome) ==
    /\ f_pc = "loop"
    /\ ~Exhausted(f_attempt, f_retries)
    /\ f_requests' = f_requests + 1
    /\ f_outcomes' = Append(f_outcomes, outcome)

\* A 2xx response: raise_for_status passes and the response is returned.
FetchOk ==
    /\ \E status \in SuccessStatus :
         /\ Sent(status)
         /\ f_response' = status
    /\ f_pc' = "returned"
    /\ UNCHANGED <<runVars, auxVars, f_retries, f_attempt, f_waits, f_last_error, f_raised>>

\* 429 or 503: sleep 2 ** attempt + jitter, continue.
FetchThrottled ==
    /\ \E status \in ThrottleStatus, jitter \in Jitters :
         /\ Sent(status)
         /\ f_waits' = Append(f_waits, Wait(f_attempt, jitter))
    /\ f_attempt' = AfterThrottle(f_attempt)
    /\ UNCHANGED <<runVars, auxVars, f_pc, f_retries, f_last_error, f_raised, f_response>>

\* except (httpx.HTTPError, httpx.TimeoutException) as e: last_error = e, and a sleep
\* unless this was the last attempt.
Caught(kind, jitter) ==
    /\ Sent(kind)
    /\ f_last_error' = [kind |-> kind, attempt |-> f_attempt]
    /\ f_waits' = IF f_attempt < f_retries - 1
                  THEN Append(f_waits, Wait(f_attempt, jitter))
                  ELSE f_waits
    /\ f_attempt' = f_attempt + 1

\* Another 4xx/5xx response: raise_for_status raises httpx.HTTPStatusError, which is an
\* httpx.HTTPError and is caught by the except clause of the loop.
FetchStatusError ==
    /\ \E status \in ErrorStatus, jitter \in Jitters : Caught(status, jitter)
    /\ UNCHANGED <<runVars, auxVars, f_pc, f_retries, f_raised, f_response>>

\* client.get raises a transport error or a timeout.
FetchTransportFails ==
    /\ \E failure \in TransportFailures, jitter \in Jitters : Caught(failure, jitter)
    /\ UNCHANGED <<runVars, auxVars, f_pc, f_retries, f_raised, f_response>>

\* client.get raises an exception that is no httpx.HTTPError: it leaves the call.
FetchUncaught ==
    /\ \E failure \in UncaughtFailures :
         /\ Sent(failure)
         /\ f_raised' = [kind |-> failure, attempt |-> f_attempt]
    /\ f_pc' = "raised"
    /\ UNCHANGED <<runVars, auxVars, f_retries, f_attempt, f_waits, f_last_error, f_response>>

\* The loop is over without a return.
FetchExhausted ==
    /\ f_pc = "loop"
    /\ Exhausted(f_attempt, f_retries)
    /\ f_raised' = RaisedWhenExhausted(f_last_error, f_retries)
    /\ f_pc' = "raised"
    /\ UNCHANGED <<runVars, auxVars, f_retries, f_attempt, f_requests, f_waits, f_last_error,
                   f_outcomes, f_response>>

\* The caller has the response or the exception; the call's frame is gone.
FetchDone ==
    /\ f_pc \in {"returned", "raised"}
    /\ f_pc' = "idle"
    /\ f_retries' = 0
    /\ f_attempt' = 0
    /\ f_requests' = 0
    /\ f_waits' = <<>>
    /\ f_last_error' = NoError
    /\ f_outcomes' = <<>>
    /\ f_raised' = NoError
    /\ f_response' = ""
    /\ UNCHANGED <<runVars, auxVars>>

FetchInit ==
    /\ scraping_enabled = TRUE
    /\ RunIdle
    /\ FetchIdle
    /\ AuxIdle

FetchNext ==
    \/ FetchCall
    \/ FetchOk
    \/ FetchThrottled
    \/ FetchStatusError
    \/ FetchTransportFails
    \/ FetchUncaught
    \/ FetchExhausted
    \/ FetchDone

\* Every await of the call completes: the sleeps are finite and client.get has a timeout.
FetchSpec == FetchInit /\ [][FetchNext]_vars /\ WF_vars(FetchNext)

\* ------------------------------------------------------------------ claims
Last(seq) == seq[Len(seq)]
ResultSources(results) == [i \in 1..Len(results) |-> results[i].source]
IsKnownSource(name) == name \in KnownSources
TerminalKinds == {"complete", "error"}

\* C1: within one run no canonical URL is handed to persistence (db.add) twice, and
\* no URL that was in the store when the run was seeded is handed to persistence.
C1_NoUrlPersistedTwice ==
    /\ \A i, j \in 1..Len(session.new) :
         i # j => session.new[i].job_url # session.new[j].job_url
    /\ SessionUrls(session) \cap store = {}

\* The second company of a deep-research run returned two stubs, one of them already
\* persisted for the first company in this run: it was not added again.
C1_Witness ==
    /\ call = "deep_scrape" /\ pc = "y_company_done" /\ comp_i = 2
    /\ store = {}
    /\ Len(session.new) = 2
    /\ Last(events).found = 2 /\ Last(events).new = 1

\* C2: in run_scrape a stub whose URL is in the known-URL set (seeded or marked
\* earlier in the run) is not handed to persistence, does not increment jobs_new and
\* increments jobs_skipped_duplicate of its source by exactly one.
C2_DuplicateIsSkipped ==
    [][(/\ call = "run_scrape" /\ pc = "stubs"
        /\ stub_i <= Len(stubs)
        /\ stubs[stub_i].job_url \in existing_urls
        /\ stub_i' = stub_i + 1)
       => /\ session' = session
          /\ result'.jobs_new = result.jobs_new
          /\ result'.jobs_skipped_duplicate = result.jobs_skipped_duplicate + 1]_vars

\* The same source was requested twice with one URL seeded: the second pass skipped
\* both of its stubs, the seeded one and the one the first pass had added.
C2_Witness ==
    /\ call = "run_scrape" /\ pc = "stubs"
    /\ Cardinality(store) = 1
    /\ Len(report.results) = 1
    /\ report.results[1].jobs_new = 1 /\ report.results[1].jobs_skipped_duplicate = 1
    /\ result.jobs_found = 2 /\ result.jobs_skipped_duplicate = 2

\* C3 as stated: when a source's search raised, the report run_scrape returns has
\* exactly one outcome entry for every requested source, in request order.
C3_Original ==
    (/\ call = "run_scrape" /\ pc = "returned" /\ scraping_enabled
     /\ \E i \in 1..Len(report.results) : report.results[i].errors # <<>>)
    => ResultSources(report.results) = args.sources

\* C3 as amended: the report run_scrape returns has exactly one outcome entry for
\* every requested source that names a known adapter ("indeed", "linkedin"), in
\* request order, whether or not a search raised; an unknown name gets no entry.
C3_EntryPerKnownSource ==
    (call = "run_scrape" /\ pc = "returned" /\ scraping_enabled)
    => ResultSources(report.results) = SelectSeq(args.sources, IsKnownSource)

\* The first of two sources raised in its search and the second one added a row.
C3_Witness ==
    /\ call = "run_scrape" /\ pc = "returned"
    /\ Len(args.sources) = 2
    /\ Len(report.results) = 2
    /\ report.results[1].errors # <<>>
    /\ report.results[2].errors = <<>> /\ report.results[2].jobs_new >= 1

\* C4: when a source's search raises, its outcome has found = new = duplicates = 0
\* and exactly one error, nothing of it is handed to persistence, and what a later
\* source reads (the known URLs, the session, the store) is left as a search that
\* returned no stub leaves it.
C4_FailedSearchIsIsolated ==
    [][(call = "run_scrape" /\ pc = "search")
       => /\ existing_urls' = existing_urls
          /\ session' = session
          /\ store' = store
          /\ report' = report
          /\ pc' = "source_done"
               => result' = [ScrapeResult(result.source) EXCEPT
                               !.errors = <<"Search failed">>]]_vars

\* The first source raised; the second found two stubs, one of them seeded.
C4_Witness ==
    /\ call = "run_scrape" /\ pc = "sources"
    /\ Len(report.results) = 2
    /\ report.results[1].errors = <<"Search failed">>
    /\ report.results[2].jobs_found = 2
    /\ report.results[2].jobs_new = 1
    /\ report.results[2].jobs_skipped_duplicate = 1

\* C5 as stated: when every page fetch of a search failed after the fetcher's
\* retries, the failure is recorded: an error entry in the source's outcome, or
\* status "error" in the company's company_done event.
C5_Original ==
    /\ (call = "run_scrape" /\ pc = "stubs" /\ pages_ok = 0 /\ pages_failed > 0)
         => result.errors # <<>>
    /\ (call = "deep_scrape" /\ pc = "y_company_done" /\ pages_ok = 0 /\ pages_failed > 0)
         => Last(events).status = "error"

\* The event kind run_deep_research yields at position k when it obtained n companies
ExpectedKind(k, n) ==
    IF k = 1 THEN "research_start"
    ELSE IF k = 2 THEN "companies_found"
    ELSE IF k = 2 * n + 3 THEN "complete"
    ELSE IF k % 2 = 1 THEN "searching_company"
    ELSE "company_done"

\* The company (1-based) the event at position k of 3..2n+2 belongs to
TargetOf(k) == (k - 1) \div 2

GeneratorOver == pc \in {"y_stream_error", "stream_end"}

IsTerminalFrame(frame) == frame.sse_event \in TerminalKinds

\* C7 as stated: the frames delivered to the client hold exactly one terminal event
\* (complete or error), and none is delivered after it.
C7_Original ==
    call = "deep_scrape"
    => /\ \A k \in 1..Len(delivered) : IsTerminalFrame(delivered[k]) => k = Len(delivered)
       /\ pc = "stream_end" => (delivered # <<>> /\ IsTerminalFrame(Last(delivered)))

\* C8 as stated: rows added during a deep-research run are committed only when the
\* whole stream was produced and consumed up to its terminal event.
C8_Original ==
    [][(call = "deep_scrape" /\ store' # store)
       => (delivered # <<>> /\ IsTerminalFrame(Last(delivered)))]_vars

\* C9: when target discovery fails or returns no usable company, run_deep_research
\* emits research_start and then one error as its last event, no companies_found,
\* searching_company or company_done, issues no request and adds nothing.
C9_DiscoveryFailureIsFatal ==
    (call = "deep_scrape" /\ companies = <<>>)
    => /\ Len(events) <= 2
       /\ Len(events) >= 1 => events[1].event = "research_start"
       /\ Len(events) = 2 => events[2].event = "error"
       /\ pc \in {"y_error", "stream_end"} => Len(events) = 2
       /\ http_requests = 0
       /\ session.new = <<>>

\* The LLM answered with a list none of whose items is usable and the stream ended.
C9_Witness ==
    /\ call = "deep_scrape" /\ pc = "stream_end"
    /\ companies = <<>>
    /\ Len(events) = 2
    /\ events[2].message = "Could not identify companies"

\* C10: when the search of company i raises, company_done of company i is yielded
\* with found = 0, new = 0 and status "error", and in a run that yields complete
\* every company has its searching_company and, after it, its company_done.
C10_FailedCompanyIsIsolated ==
    /\ [][(call = "deep_scrape" /\ pc = "d_search" /\ pc' = "y_company_done")
          => /\ Len(events') = Len(events) + 1
             /\ Last(events').event = "company_done"
             /\ Last(events').company = companies[comp_i]
             /\ Last(events').found = 0
             /\ Last(events').new = 0
             /\ Last(events').status = "error"
             /\ session' = session]_vars
    /\ [](call = "deep_scrape" /\ events # <<>> /\ Last(events).event = "complete"
          => \A i \in 1..Len(companies) :
               \E k \in 1..Len(events) :
                 /\ events[k].event = "searching_company"
                 /\ events[k].company = companies[i]
                 /\ events[k + 1].event = "company_done"
                 /\ events[k + 1].company = companies[i])

\* The search of the first of two companies raised, the second one added a row, and
\* complete was yielded.
C10_Witness ==
    /\ call = "deep_scrape" /\ pc = "y_complete"
    /\ Len(companies) = 2
    /\ events[4].status = "error"
    /\ events[6].status = "done" /\ events[6].new >= 1

\* ------------------------------------------------------- claims, continued
DoneFrames == Cardinality({k \in 1..Len(delivered) : delivered[k].sse_event = "company_done"})
Working == pc \in {"d_search", "d_stubs"}

\* C11: the deep-research stream is lazy: a request or a db.add for company i + 1
\* happens only when the company_done frames of companies 1..i have been handed to
\* the consumer, and once the consumer has stopped pulling no request is made, no row
\* is added and no event is produced any more.
C11_LazyStream ==
    /\ [](call = "deep_scrape" /\ Working => DoneFrames = comp_i - 1)
    /\ [][(/\ call = "deep_scrape"
           /\ \/ http_requests' > http_requests
              \/ Len(session'.new) > Len(session.new))
          => (Working /\ DoneFrames = comp_i - 1)]_vars
    /\ [][(call = "deep_scrape" /\ pc = "stream_aborted")
          => /\ http_requests' <= http_requests
             /\ Len(session'.new) <= Len(session.new)
             /\ call' = "deep_scrape" => (events' = events /\ comp_i' = comp_i)]_vars

\* The consumer stopped at the company_done frame of the first of two companies.
C11_Witness ==
    /\ call = "deep_scrape" /\ pc = "stream_aborted"
    /\ Len(companies) = 2 /\ comp_i = 1
    /\ Last(delivered).sse_event = "company_done"
    /\ http_requests >= 1

\* The snippet of the stub a URL was parsed from
SnippetOf(url) == IF url[1] = "indeed" THEN RawSnippet(url[2]) ELSE ""

\* C12: the description of every record handed to persistence is the fetched detail
\* text or, when enrichment gave no text (empty, failed or not attempted), the stub's
\* snippet; no record has an empty description when its stub had a non-empty snippet.
C12_SnippetFallback ==
    \A i \in 1..Len(session.new) :
      LET job == session.new[i]
          snippet == SnippetOf(job.job_url)
      IN /\ job.job_description \in {DetailText, snippet}
         /\ ~args.fetch_details => job.job_description = snippet
         /\ job.job_description = "" => snippet = ""

\* Details were asked for, one detail fetch gave no text, and the record carries the
\* stub's non-empty snippet.
C12_Witness ==
    /\ call = "run_scrape" /\ args.fetch_details
    /\ \E i \in 1..Len(session.new) :
         /\ session.new[i].job_description # ""
         /\ session.new[i].job_description # DetailText
         /\ session.new[i].job_description = SnippetOf(session.new[i].job_url)

AllEnriched == \A i \in 1..Len(session.new) : session.new[i].job_description = DetailText
KnownAtSeed == Cardinality({i \in 1..Len(stubs) : stubs[i].job_url \in store})

\* C13: in a single-source run whose search returns n stubs (pairwise distinct URLs),
\* d of them already stored, and whose detail fetches all return text, the outcome is
\* found = n, new = n - d, duplicates = d, enriched = n - d, errors = [], and the
\* report's total_new is n - d.
C13_ScenarioCounts ==
    (call = "run_scrape" /\ Len(args.sources) = 1 /\ AllEnriched)
    => /\ (pc = "stubs" /\ stub_i > Len(stubs))
            => result = [source |-> args.sources[1],
                         jobs_found |-> Len(stubs),
                         jobs_new |-> Len(stubs) - KnownAtSeed,
                         jobs_skipped_duplicate |-> KnownAtSeed,
                         jobs_enriched |-> Len(stubs) - KnownAtSeed,
                         errors |-> <<>>]
       /\ (pc = "returned" /\ Len(report.results) = 1 /\ report.results[1].errors = <<>>)
            => LET r == report.results[1]
               IN /\ r.jobs_new = r.jobs_found - r.jobs_skipped_duplicate
                  /\ r.jobs_enriched = r.jobs_new
                  /\ report.total_new = r.jobs_new

\* Three stubs, one of them stored before the run, two enriched and added.
C13_Witness ==
    /\ call = "run_scrape" /\ pc = "returned" /\ Len(args.sources) = 1
    /\ AllEnriched
    /\ report.total_new = 2
    /\ report.results = <<[source |-> "indeed", jobs_found |-> 3, jobs_new |-> 2,
                           jobs_skipped_duplicate |-> 1, jobs_enriched |-> 2,
                           errors |-> <<>>]>>

\* C14: with scraping disabled run_scrape returns the empty report (no outcome,
\* total_new = 0), makes no request and hands nothing to persistence.
C14_DisabledShortCircuits ==
    (call = "run_scrape" /\ ~scraping_enabled)
    => /\ pc = "returned"
       /\ report = ScrapeReport
       /\ http_requests = 0
       /\ pages_ok = 0 /\ pages_failed = 0
       /\ session.new = <<>>

\* run_scrape was called for two sources with scraping disabled and has returned.
C14_Witness ==
    /\ call = "run_scrape" /\ ~scraping_enabled
    /\ pc = "returned"
    /\ args.sources = <<"indeed", "linkedin">>

\* -------------------------------------------------- claims: fetch_with_retry
Failures == ErrorStatus \cup TransportFailures
Positions(seq, S) == {k \in 1..Len(seq) : seq[k] \in S}
Highest(S) == CHOOSE k \in S : \A other \in S : other <= k
GaveUp == f_pc = "raised" /\ f_attempt >= f_retries

\* C15 as stated: a throttled response (429, 503) does not use up an attempt, so a call
\* gives up only after maxAttempts attempts that ended in a failure.
C15_Original ==
    GaveUp => Cardinality(Positions(f_outcomes, Failures)) = f_retries

\* C15 as amended: a 429 or 503 response is followed by a backoff wait of 2^attempt
\* plus jitter and by a retry, and it uses up one of the maxAttempts attempts as a
\* failure does: the attempt number is the number of requests made, never more than
\* maxAttempts requests are made, and a call all of whose attempts were throttled
\* gives up with RuntimeError.
C15_ThrottleUsesAttempt ==
    /\ \A k \in Positions(f_outcomes, ThrottleStatus) :
         \E w \in 1..Len(f_waits) :
           f_waits[w].attempt = k - 1 /\ f_waits[w].det = Pow2(k - 1)
    /\ f_pc = "loop" => f_attempt = Len(f_outcomes)
    /\ f_requests <= f_retries
    /\ (GaveUp /\ Positions(f_outcomes, ThrottleStatus) = 1..Len(f_outcomes))
         => f_raised.kind = "RuntimeError"

\* A call with two attempts gave up after one throttled response and one failure.
C15_Witness ==
    /\ f_pc = "raised" /\ f_retries = 2
    /\ f_outcomes = <<"429", "ConnectError">>
    /\ f_raised.kind = "ConnectError"

\* C16 as stated: after a non-2xx response that is no throttle status (404, 500) the
\* call has raised: it sends no further request and makes no backoff wait for it.
C16_Original ==
    \A k \in Positions(f_outcomes, ErrorStatus) :
      /\ k = Len(f_outcomes)
      /\ f_pc = "raised"
      /\ \A w \in 1..Len(f_waits) : f_waits[w].attempt # k - 1

\* C17 as stated: at most maxAttempts requests are made, and a call that gives up
\* raises the error of its final attempt.
C17_Original ==
    /\ f_requests <= f_retries
    /\ GaveUp => f_raised = [kind |-> Last(f_outcomes), attempt |-> f_retries - 1]

\* What a call that gives up raises, from what its requests ended in
ExpectedRaise ==
    LET failed == Positions(f_outcomes, Failures)
    IN IF failed = {} THEN [kind |-> "RuntimeError", attempt |-> f_retries]
       ELSE [kind |-> f_outcomes[Highest(failed)], attempt |-> Highest(failed) - 1]

\* C17 as amended: fetch_with_retry always terminates: for any sequence of outcomes it
\* makes at most maxAttempts requests, and when the attempts are used up it returns
\* no response but raises the error of the most recent attempt that ended in an
\* error, or RuntimeError when every attempt was throttled.
C17_TerminatesAndRaises ==
    /\ [](/\ f_requests <= f_retries
          /\ f_pc = "raised" => f_response = ""
          /\ GaveUp => f_raised = ExpectedRaise)
    /\ (f_pc = "loop") ~> (f_pc \in {"returned", "raised"})

\* Three attempts: a timeout, a 404, a throttled last one; the 404's error is raised.
C17_Witness ==
    /\ f_pc = "raised" /\ f_retries = 3
    /\ f_outcomes = <<"ReadTimeout", "404", "503">>
    /\ f_raised = [kind |-> "404", attempt |-> 1]

\* C18: the deterministic part (2^attempt) of the backoff waits of one call never
\* decreases from one wait to the next, on the throttle and on the failure path.
C18_BackoffNeverDecreases ==
    \A i, j \in 1..Len(f_waits) :
      i < j => /\ f_waits[i].det <= f_waits[j].det
               /\ f_waits[i].attempt < f_waits[j].attempt

\* Three waits of one call: after a failure (1), after two throttled responses (2, 4).
C18_Witness ==
    /\ f_outcomes = <<"ConnectError", "429", "503">>
    /\ Len(f_waits) = 3
    /\ f_waits[1].det = 1 /\ f_waits[2].det = 2 /\ f_waits[3].det = 4

\* ---------------------------------------------------- claims: pagination
Searching == pc \in {"search", "d_search"}

\* C19: a search stops paginating at the first fetched page that yields no stub, also
\* with fewer than max_results stubs: it returns the stubs collected so far and never
\* stands before another page request after such a page.
C19_EmptyPageStops ==
    /\ [](Searching => ~last_page_empty)
    /\ [][(Searching /\ last_page_empty')
          => /\ pc' \in {"stubs", "d_stubs"}
             /\ stubs' = all_jobs
             /\ http_requests' = http_requests + 1]_vars

\* The second page of a search for up to 12 results had no stub: the search returned
\* the two stubs of the first page.
C19_Witness ==
    /\ call = "run_scrape" /\ pc = "stubs"
    /\ args.max_results = 12
    /\ pages_ok = 2 /\ last_page_empty
    /\ Len(stubs) = 2

\* C20: the list one search call returns has pairwise distinct URLs and at most
\* max_results elements, whatever the pages hold.
C20_SearchResultDistinctAndCapped ==
    (pc \in {"stubs", "d_stubs"})
    => /\ \A i, j \in 1..Len(stubs) : i # j => stubs[i].job_url # stubs[j].job_url
       /\ Len(stubs) <= args.max_results

\* Two pages were fetched, the second one held only the listing of the first.
C20_Witness ==
    /\ call = "run_scrape" /\ pc = "stubs"
    /\ pages_ok = 2 /\ pages_failed = 0 /\ ~last_page_empty
    /\ Len(stubs) = 1

\* --------------------------------------------------- robots.txt and request order
\* run_scrape once more, one step per request: the robots lookups, the page and detail
\* requests as they are issued and answered, and the db.add of each stub.
MaxPages == 2
MaxStubs == 2

\* The paths the adapters request on a domain.
Paths == {"search", "detail"}

\* What RobotFileParser.read() can meet: a robots.txt that parses, an HTTP error status
\* (urlopen raises HTTPError, which read() handles itself), or an exception read() lets
\* out (URLError, a timeout, bytes that do not decode).
ReadOk == {[kind |-> "200", disallowed |-> D] : D \in SUBSET Paths}
ReadHttpError == {[kind |-> k, disallowed |-> {}] : k \in {"403", "404", "500"}}
ReadRaises == {[kind |-> k, disallowed |-> {}] : k \in {"URLError", "UnicodeDecodeError"}}
ReadOutcomes == ReadOk \cup ReadHttpError \cup ReadRaises

\* rp.read() inside the try of get_robots_parser: the parser as the call leaves it.
\* 401/403 set disallow_all, other 4xx set allow_all, anything else that fails leaves
\* the parser as constructed; only parse() records that the file was read.
read(rp, outcome) ==
    CASE outcome \in ReadOk ->
             [rp EXCEPT !.last_checked = TRUE, !.disallowed = outcome.disallowed]
      [] outcome.kind = "403" -> [rp EXCEPT !.disallow_all = TRUE]
      [] outcome.kind = "404" -> [rp EXCEPT !.allow_all = TRUE]
      [] OTHER -> rp

\* RobotFileParser.can_fetch(useragent, url) for the wildcard agent.
parser_can_fetch(rp, path) ==
    IF rp.disallow_all THEN FALSE
    ELSE IF rp.allow_all THEN TRUE
    ELSE IF ~rp.last_checked THEN FALSE
    ELSE path \notin rp.disallowed

\* can_fetch(robots, url): the parser's answer, or True when the parser raises.
can_fetch(robots, path, parser_raises) ==
    IF parser_raises THEN TRUE ELSE parser_can_fetch(robots, path)

\* A variant that keeps only a parser whose read() did not raise.
Cached_OnlyWhenRead(cache, domain, rp, outcome) ==
    IF outcome \in ReadRaises THEN cache
    ELSE [d \in DOMAIN cache \cup {domain} |-> IF d = domain THEN rp ELSE cache[d]]

\* _robots_cache[domain] = rp, whatever read() did.
Cached(cache, domain, rp, outcome) ==
    [d \in DOMAIN cache \cup {domain} |-> IF d = domain THEN rp ELSE cache[d]]

\* get_robots_parser(domain): the cached parser, or a new one read, stored and returned.
\* The function is synchronous, so the whole call is one step.
get_robots_parser(domain) ==
    IF domain \in DOMAIN robots_cache
    THEN /\ n_robots' = robots_cache[domain]
         /\ robots_hit' = [robots_hit EXCEPT ![domain] = TRUE]
         /\ UNCHANGED <<robots_cache, robots_reads>>
    ELSE \E outcome \in ReadOutcomes :
            LET rp == read(RobotFileParser, outcome)
            IN /\ robots_cache' = Cached(robots_cache, domain, rp, outcome)
               /\ robots_reads' = [robots_reads EXCEPT ![domain] = Append(@, outcome)]
               /\ n_robots' = rp
               /\ UNCHANGED robots_hit

\* A variant that starts a detail fetch without awaiting it.
AfterDetailIssued_NotAwaited == "handoff"

\* description = await fetch_..._job_detail(...): the loop waits for the answer.
AfterDetailIssued == "await_detail"

\* run_scrape(db, sources=...) is called.
NetRunScrape ==
    /\ n_pc = "idle"
    /\ \E sources \in SeqsUpTo(SourceNames, MaxSources) :
          n_sources' = sources
    /\ n_pc' = "sources"
    /\ n_i' = 1
    /\ n_req' = NoRequest
    /\ UNCHANGED <<runVars, fetchVars, loopVars, pageVars, concVars, robots_cache,
                   robots_reads, robots_hit, n_robots, n_page, n_todo, in_flight>>

\* for source in sources: a name that is neither "indeed" nor "linkedin": continue.
NetSkipUnknownSource ==
    /\ n_pc = "sources"
    /\ n_i <= Len(n_sources)
    /\ n_sources[n_i] \notin KnownSources
    /\ n_i' = n_i + 1
    /\ UNCHANGED <<runVars, fetchVars, loopVars, pageVars, concVars, robots_cache,
                   robots_reads, robots_hit, n_pc, n_sources, n_robots, n_page, n_todo,
                   n_req, in_flight>>

\* The source's worker calls the search, whose first statement is the robots lookup.
NetBeginSearch ==
    /\ n_pc = "sources"
    /\ n_i <= Len(n_sources)
    /\ n_sources[n_i] \in KnownSources
    /\ get_robots_parser(DomainOf(n_sources[n_i]))
    /\ n_pc' = "search"
    /\ n_page' = 0
    /\ n_todo' = 0
    /\ UNCHANGED <<runVars, fetchVars, loopVars, pageVars, concVars, n_sources, n_i,
                   n_req, in_flight>>

\* The page loop: can_fetch is consulted, a refusal is logged, and the page is requested.
NetRequestPage ==
    /\ n_pc = "search"
    /\ n_page < MaxPages
    /\ \E parser_raises \in BOOLEAN :
          n_req' = [site |-> n_sources[n_i], kind |-> "search",
                    permitted |-> can_fetch(n_robots, "search", parser_raises)]
    /\ in_flight' = in_flight + 1
    /\ n_page' = n_page + 1
    /\ n_pc' = "await_search"
    /\ UNCHANGED <<runVars, fetchVars, loopVars, pageVars, concVars, robots_cache,
                   robots_reads, robots_hit, n_sources, n_i, n_robots, n_todo>>

\* The page request is answered and the loop goes on to the next page.
NetPageAnswered ==
    /\ n_pc = "await_search"
    /\ n_page < MaxPages
    /\ in_flight' = in_flight - 1
    /\ n_pc' = "search"
    /\ UNCHANGED <<runVars, fetchVars, loopVars, pageVars, concVars, robots_cache,
                   robots_reads, robots_hit, n_sources, n_i, n_robots, n_page, n_todo,
                   n_req>>

\* The page request is answered (or has failed) and the search returns its stubs.
NetSearchReturns ==
    /\ n_pc = "await_search"
    /\ in_flight' = in_flight - 1
    /\ \E found \in 0..MaxStubs : n_todo' = found
    /\ n_pc' = "stubs"
    /\ UNCHANGED <<runVars, fetchVars, loopVars, pageVars, concVars, robots_cache,
                   robots_reads, robots_hit, n_sources, n_i, n_robots, n_page, n_req>>

\* The page request is answered and the search raises: the worker returns its result.
NetSearchRaises ==
    /\ n_pc = "await_search"
    /\ in_flight' = in_flight - 1
    /\ n_pc' = "sources"
    /\ n_i' = n_i + 1
    /\ UNCHANGED <<runVars, fetchVars, loopVars, pageVars, concVars, robots_cache,
                   robots_reads, robots_hit, n_sources, n_robots, n_page, n_todo, n_req>>

\* for stub in stubs: the URL is known: continue.
NetSkipDuplicateStub ==
    /\ n_pc = "stubs"
    /\ n_todo > 0
    /\ n_todo' = n_todo - 1
    /\ UNCHANGED <<runVars, fetchVars, loopVars, pageVars, concVars, robots_cache,
                   robots_reads, robots_hit, n_pc, n_sources, n_i, n_robots, n_page,
                   n_req, in_flight>>

\* A new stub and fetch_details: the detail page is requested; no robots check is made.
NetRequestDetail ==
    /\ n_pc = "stubs"
    /\ n_todo > 0
    /\ n_req' = [site |-> n_sources[n_i], kind |-> "detail", permitted |-> TRUE]
    /\ in_flight' = in_flight + 1
    /\ n_pc' = AfterDetailIssued
    /\ UNCHANGED <<runVars, fetchVars, loopVars, pageVars, concVars, robots_cache,
                   robots_reads, robots_hit, n_sources, n_i, n_robots, n_page, n_todo>>

\* The detail request is answered or has failed: the fetch returns its text or "".
NetDetailAnswered ==
    /\ n_pc = "await_detail"
    /\ in_flight' = in_flight - 1
    /\ n_pc' = "handoff"
    /\ UNCHANGED <<runVars, fetchVars, loopVars, pageVars, concVars, robots_cache,
                   robots_reads, robots_hit, n_sources, n_i, n_robots, n_page, n_todo,
                   n_req>>

\* A new stub without a detail fetch goes straight to db.add.
NetNoDetail ==
    /\ n_pc = "stubs"
    /\ n_todo > 0
    /\ n_pc' = "handoff"
    /\ UNCHANGED <<runVars, fetchVars, loopVars, pageVars, concVars, robots_cache,
                   robots_reads, robots_hit, n_sources, n_i, n_robots, n_page, n_todo,
                   n_req, in_flight>>

\* db.add(job); existing_urls.add(url); result.jobs_new += 1.
NetHandOff ==
    /\ n_pc = "handoff"
    /\ n_todo' = n_todo - 1
    /\ n_pc' = "stubs"
    /\ UNCHANGED <<runVars, fetchVars, loopVars, pageVars, concVars, robots_cache,
                   robots_reads, robots_hit, n_sources, n_i, n_robots, n_page, n_req,
                   in_flight>>

\* The stub loop is over: the worker returns and the for-source loop moves on.
NetSourceReturns ==
    /\ n_pc = "stubs"
    /\ n_todo = 0
    /\ n_pc' = "sources"
    /\ n_i' = n_i + 1
    /\ UNCHANGED <<runVars, fetchVars, loopVars, pageVars, concVars, robots_cache,
                   robots_reads, robots_hit, n_sources, n_robots, n_page, n_todo, n_req,
                   in_flight>>

\* The for-source loop is over: run_scrape returns; the robots cache outlives the run.
NetRunScrapeReturns ==
    /\ n_pc = "sources"
    /\ n_i > Len(n_sources)
    /\ n_pc' = "idle"
    /\ n_sources' = <<>>
    /\ n_i' = 0
    /\ n_robots' = RobotFileParser
    /\ n_page' = 0
    /\ n_req' = NoRequest
    /\ UNCHANGED <<runVars, fetchVars, loopVars, pageVars, concVars, robots_cache,
                   robots_reads, robots_hit, n_todo, in_flight>>

NetNext ==
    \/ NetRunScrape
    \/ NetSkipUnknownSource
    \/ NetBeginSearch
    \/ NetRequestPage
    \/ NetPageAnswered
    \/ NetSearchReturns
    \/ NetSearchRaises
    \/ NetSkipDuplicateStub
    \/ NetRequestDetail
    \/ NetDetailAnswered
    \/ NetNoDetail
    \/ NetHandOff
    \/ NetSourceReturns
    \/ NetRunScrapeReturns

NetSpec == AuxInit /\ [][NetNext]_vars

\* ------------------------------------------------ claims: robots.txt and pacing
\* The robots.txt of the domain was fetched and parsed, and it disallows the path.
PolicyDisallows(domain, path) ==
    /\ domain \in DOMAIN robots_cache
    /\ robots_reads[domain] # <<>>
    /\ Last(robots_reads[domain]) \in ReadOk
    /\ path \in robots_cache[domain].disallowed

\* The robots.txt of the domain could not be fetched or parsed.
PolicyUnreadable(domain) ==
    /\ domain \in DOMAIN robots_cache
    /\ robots_reads[domain] # <<>>
    /\ Last(robots_reads[domain]) \notin ReadOk

\* The step issues an HTTP request.
Issues == in_flight' > in_flight

\* C21 as stated: no search-page or detail-page request is issued for a URL that the
\* domain's successfully fetched and parsed robots policy disallows.
C21_Original ==
    [][Issues => ~PolicyDisallows(DomainOf(n_req'.site), n_req'.kind)]_vars

\* C22 as stated: when a domain's robots file could not be fetched or parsed, the
\* permission check made for a page of that domain answers true, on the first call and
\* on every later one served from the cache.
C22_Original ==
    (n_req.kind = "search" /\ PolicyUnreadable(DomainOf(n_req.site))) => n_req.permitted

\* C23: the robots.txt of a domain is fetched at most once per process, also when the
\* first fetch failed, and an entry of the cache is never replaced or removed.
C23_FetchedOnceAndKept ==
    /\ [](\A d \in Domains : Len(robots_reads[d]) <= 1)
    /\ [][\A d \in DOMAIN robots_cache :
             d \in DOMAIN robots_cache' /\ robots_cache'[d] = robots_cache[d]]_vars

\* A later search is answered from the cache for a domain whose only fetch raised.
C23_Witness ==
    \E d \in Domains :
        /\ robots_hit[d]
        /\ Len(robots_reads[d]) = 1
        /\ robots_reads[d][1] \in ReadRaises
        /\ d \in DOMAIN robots_cache
        /\ n_pc = "search"

\* C24: within one run_scrape at most one HTTP request is in flight at any time, every
\* request belongs to the source the for-loop stands at, and the loop moves to the next
\* source, one position at a time, only when no request is in flight and no stub of the
\* source is left to process.
C24_OneRequestAtATimeInSourceOrder ==
    /\ [](in_flight <= 1)
    /\ [][/\ Issues => /\ in_flight = 0
                       /\ n_i' = n_i
                       /\ n_req'.site = n_sources[n_i]
          /\ (n_i' # n_i /\ n_pc # "idle" /\ n_pc' # "idle") =>
                 /\ n_i' = n_i + 1
                 /\ in_flight' = 0
                 /\ n_todo' = 0
                 /\ n_pc' = "sources"]_vars

\* The second source's detail request is in flight after the first source was processed.
C24_Witness ==
    /\ n_sources = <<"linkedin", "indeed">>
    /\ n_i = 2
    /\ in_flight = 1
    /\ n_req.site = "indeed"
    /\ n_req.kind = "detail"

\* ------------------------------------------------- claims: outcomes and totals
\* The step is the for-stub loop of run_scrape taking a new stub whose detail fetch fails.
DetailFetchFails ==
    /\ call = "run_scrape" /\ pc = "stubs"
    /\ stub_i <= Len(stubs)
    /\ ~UrlKnown(stubs[stub_i].job_url, existing_urls)
    /\ stub_i' = stub_i + 1
    /\ detail_failed'

\* C25: a detail fetch that fails adds no entry to the source's errors, the stub is
\* still handed to persistence, with its snippet as description, and the loop goes on
\* to the next stub.
C25_DetailFailureIsSilent ==
    [][DetailFetchFails =>
          /\ result'.errors = result.errors
          /\ session'.new = Append(session.new,
                                   stub_to_job(stubs[stub_i], stubs[stub_i].snippet))
          /\ result'.jobs_new = result.jobs_new + 1
          /\ result'.jobs_enriched = result.jobs_enriched
          /\ pc' = "stubs" /\ stubs' = stubs]_vars

\* The detail fetch of the first stub failed and the stub was added; the second stub
\* was processed after it, its own fetch failing too, and the source has no error.
C25_Witness ==
    /\ call = "run_scrape" /\ pc = "stubs"
    /\ detail_failed
    /\ Len(stubs) = 2 /\ stub_i = 3
    /\ Len(session.new) = 2
    /\ result.jobs_enriched = 0
    /\ result.errors = <<>>

\* The outcomes of the run: the ones in the report and the one being filled.
Outcomes == {report.results[i] : i \in 1..Len(report.results)} \cup {result}

\* C26: no outcome of run_scrape ever carries more than 5 error strings; the only entry
\* an outcome ever gets is the one failure of its search.
C26_AtMostFiveErrors ==
    call = "run_scrape" =>
        \A r \in Outcomes :
            /\ Len(r.errors) <= MAX_ERRORS
            /\ r.errors \in {<<>>, SearchFailed(NoResult).errors}

\* The returned report holds two outcomes, each with the error of its failed search.
C26_Witness ==
    /\ call = "run_scrape" /\ pc = "returned"
    /\ Len(report.results) = 2
    /\ \A i \in 1..2 : Len(report.results[i].errors) = 1

RECURSIVE SumJobsNew(_)
SumJobsNew(results) ==
    IF results = <<>> THEN 0 ELSE Head(results).jobs_new + SumJobsNew(Tail(results))

\* The sum of new over the company_done events among the first n events.
RECURSIVE SumDoneNew(_)
SumDoneNew(n) ==
    IF n = 0 THEN 0
    ELSE (IF events[n].event = "company_done" THEN events[n].new ELSE 0) + SumDoneNew(n - 1)

\* C30: the report run_scrape returns has total_new equal to the sum of jobs_new over
\* its outcomes and to the number of records handed to persistence; the complete event
\* of run_deep_research has total_new equal to the sum of new over the company_done
\* events before it; and in every outcome new + duplicates <= found.
C30_TotalsAgree ==
    /\ (call = "run_scrape" /\ pc = "returned")
          => /\ report.total_new = SumJobsNew(report.results)
             /\ report.total_new = Len(session.new)
    /\ \A n \in 1..Len(events) :
          events[n].event = "complete" => events[n].total_new = SumDoneNew(n)
    /\ \A r \in Outcomes : r.jobs_new + r.jobs_skipped_duplicate <= r.jobs_found
    /\ \A n \in 1..Len(events) :
          events[n].event = "company_done" => events[n].new <= events[n].found

\* A deep run completed over two companies, one of which found a known listing.
C30_Witness ==
    /\ call = "deep_scrape"
    /\ events # <<>>
    /\ Last(events).event = "complete"
    /\ Last(events).total_new = 2
    /\ \E n \in 1..Len(events) :
          /\ events[n].event = "company_done"
          /\ events[n].new = 1
          /\ events[n].found = 2

\* ------------------------------------------------------ the two stub loops
\* The for-stub loop of _scrape_source_linkedin and the one of run_deep_research, run
\* on the same stubs, known-URL set and detail results. The loops read a stub with
\* stub.get, so the stubs here are what the loops accept: a title or a snippet may be
\* missing ("" stands for a missing or empty value).
LoopStubs ==
    {[job_title |-> t, company_name |-> "Acme", job_url |-> LinkedInUrl(k), job_id |-> k,
      snippet |-> s, source |-> "linkedin"] :
        k \in Keys, t \in {"", "Engineer"}, s \in {"", LongText}}

\* The detail step both loops share: fetch when asked to and the stub has a job_id,
\* then fall back to the snippet.
LoopDescription(stub, details, fetch_details) ==
    LET detail == IF fetch_details /\ stub.job_id # 0 THEN details[stub.job_id] ELSE ""
    IN IF detail # "" THEN detail ELSE stub.snippet

\* _scrape_source_linkedin, for stub in stubs: the rows handed to db.add, in order.
RECURSIVE ScrapeLoop(_, _, _, _)
ScrapeLoop(todo, existing, details, fetch_details) ==
    IF todo = <<>> THEN <<>>
    ELSE LET stub == Head(todo)
             description == LoopDescription(stub, details, fetch_details)
         IN IF UrlKnown(stub.job_url, existing)
            THEN ScrapeLoop(Tail(todo), existing, details, fetch_details)
            ELSE IF TooSparse(stub, description)
            THEN ScrapeLoop(Tail(todo), existing, details, fetch_details)
            ELSE <<stub_to_job(stub, description)>>
                 \o ScrapeLoop(Tail(todo), MarkSeen(existing, stub.job_url), details,
                               fetch_details)

\* run_deep_research, for stub in stubs: the rows handed to db.add, in order. The loop
\* has no test on the amount of content.
RECURSIVE DeepLoop(_, _, _, _, _)
DeepLoop(todo, existing, details, fetch_details, company) ==
    IF todo = <<>> THEN <<>>
    ELSE LET stub == Head(todo)
             description == LoopDescription(stub, details, fetch_details)
         IN IF UrlKnown(stub.job_url, existing)
            THEN DeepLoop(Tail(todo), existing, details, fetch_details, company)
            ELSE <<deep_job(stub, description, company)>>
                 \o DeepLoop(Tail(todo), MarkSeen(existing, stub.job_url), details,
                             fetch_details, company)

\* Both loops are given their inputs.
LoopInput ==
    /\ l_pc = "idle"
    /\ l_stubs' \in SeqsUpTo(LoopStubs, MaxStubs)
    /\ l_seeded' \in SUBSET {LinkedInUrl(k) : k \in Keys}
    /\ l_details' \in [Keys -> DetailTexts]
    /\ l_fetch_details' \in BOOLEAN
    /\ l_pc' = "input"
    /\ UNCHANGED <<runVars, fetchVars, politeVars, pageVars, concVars, l_scrape, l_deep>>

\* Both loops run to their end.
LoopsRun ==
    /\ l_pc = "input"
    /\ l_scrape' = ScrapeLoop(l_stubs, l_seeded, l_details, l_fetch_details)
    /\ l_deep' = DeepLoop(l_stubs, l_seeded, l_details, l_fetch_details, "Acme")
    /\ l_pc' = "done"
    /\ UNCHANGED <<runVars, fetchVars, politeVars, pageVars, concVars, l_stubs, l_seeded,
                   l_details, l_fetch_details>>

LoopNext ==
    \/ LoopInput
    \/ LoopsRun

LoopSpec == AuxInit /\ [][LoopNext]_vars

\* ------------------------------------------------------ claims: the stub loops
\* The canonical URL and the description of every row of a sequence of rows.
Handed(rows) ==
    {[job_url |-> rows[i].job_url, job_description |-> rows[i].job_description] :
        i \in 1..Len(rows)}

PageMaxResults == {1, 25, 50, 60}
PageSizes == {0, 1, CARDS_PER_PAGE}

\* range(0, min(max_results, 50), step): the loop goes on while start is below the stop.
RangeStop(max_results) == Min(max_results, MAX_RESULTS_CAP)

\* The dedup loop of one page on counts: unseen stubs are appended one by one and the
\* loop breaks once len(all_jobs) >= max_results.
MergeCount(len, fresh, max_results) == Min(len + fresh, max_results)

\* return all_jobs[:max_results]
Returned(len, max_results) == Min(len, max_results)

\* The search is called.
PageSearchCall ==
    /\ p_pc = "idle"
    /\ p_site' \in KnownSources
    /\ p_max_results' \in PageMaxResults
    /\ p_start' = 0
    /\ p_len' = 0
    /\ p_returned' = 0
    /\ p_pc' = "loop"
    /\ UNCHANGED <<runVars, fetchVars, politeVars, loopVars, concVars>>

\* fetch_with_retry raises on the page: break.
PageFetchFails ==
    /\ p_pc = "loop"
    /\ p_start < RangeStop(p_max_results)
    /\ p_pc' = "break"
    /\ UNCHANGED <<runVars, fetchVars, politeVars, loopVars, concVars, p_site,
                   p_max_results, p_start, p_len, p_returned>>

\* A page is fetched and parsed: break on an empty page, merge, break at max_results,
\* else go on to the next offset.
PageParsed ==
    /\ p_pc = "loop"
    /\ p_start < RangeStop(p_max_results)
    /\ \E cards \in PageSizes, fresh \in PageSizes :
          /\ fresh <= cards
          /\ IF cards = 0
             THEN /\ p_pc' = "break"
                  /\ UNCHANGED <<p_len, p_start>>
             ELSE LET len == MergeCount(p_len, fresh, p_max_results)
                  IN /\ p_len' = len
                     /\ IF len >= p_max_results
                        THEN p_pc' = "break" /\ UNCHANGED p_start
                        ELSE p_pc' = "loop" /\ p_start' = p_start + PageStep(p_site)
    /\ UNCHANGED <<runVars, fetchVars, politeVars, loopVars, concVars, p_site,
                   p_max_results, p_returned>>

\* The loop was left or its range is used up: the slice is returned.
PageSearchReturns ==
    /\ \/ p_pc = "break"
       \/ p_pc = "loop" /\ p_start >= RangeStop(p_max_results)
    /\ p_returned' = Returned(p_len, p_max_results)
    /\ p_pc' = "returned"
    /\ UNCHANGED <<runVars, fetchVars, politeVars, loopVars, concVars, p_site,
                   p_max_results, p_start, p_len>>

\* The caller has the list; the next search can be called.
PageSearchDone ==
    /\ p_pc = "returned"
    /\ p_pc' = "idle"
    /\ p_site' = ""
    /\ p_max_results' = 0
    /\ p_start' = 0
    /\ p_len' = 0
    /\ p_returned' = 0
    /\ UNCHANGED <<runVars, fetchVars, politeVars, loopVars, concVars>>

PageNext ==
    \/ PageSearchCall
    \/ PageFetchFails
    \/ PageParsed
    \/ PageSearchReturns
    \/ PageSearchDone

PageSpec == AuxInit /\ [][PageNext]_vars

\* ------------------------------------------------------ claims: the result cap
\* C28 as stated: a search never returns more than 50 stubs; its result has at most
\* min(max_results, 50) elements for every max_results and every page content.
C28_Original ==
    p_pc = "returned" => p_returned <= Min(p_max_results, MAX_RESULTS_CAP)

\* ------------------------------------------------------ two runs, one store
\* Two requests at a time, each with its own session and its own existing_urls, over
\* the one jobs table. A run reads the committed rows at its start; the rows it adds
\* become visible to the other run only when its session is committed.
ConcUrls == {LinkedInUrl(k) : k \in Keys}

\* existing_urls = await _get_existing_urls(db): the run is seeded from the table.
ConcRunStarts(r) ==
    /\ c_pc[r] = "idle"
    /\ c_existing' = [c_existing EXCEPT ![r] = c_store]
    /\ c_added' = [c_added EXCEPT ![r] = {}]
    /\ c_pc' = [c_pc EXCEPT ![r] = "running"]
    /\ UNCHANGED <<runVars, fetchVars, politeVars, loopVars, pageVars, c_store>>

\* for stub in stubs: a URL the run does not know is added to its session and its set.
ConcAddsStub(r) ==
    /\ c_pc[r] = "running"
    /\ \E url \in ConcUrls :
          /\ ~UrlKnown(url, c_existing[r])
          /\ c_added' = [c_added EXCEPT ![r] = @ \cup {url}]
          /\ c_existing' = [c_existing EXCEPT ![r] = MarkSeen(@, url)]
    /\ UNCHANGED <<runVars, fetchVars, politeVars, loopVars, pageVars, c_store, c_pc>>

\* The run's rows are flushed and committed: no job_url of them is in the table.
ConcCommits(r) ==
    /\ c_pc[r] = "running"
    /\ c_added[r] \cap c_store = {}
    /\ c_store' = c_store \cup c_added[r]
    /\ c_pc' = [c_pc EXCEPT ![r] = "idle"]
    /\ c_existing' = [c_existing EXCEPT ![r] = {}]
    /\ c_added' = [c_added EXCEPT ![r] = {}]
    /\ UNCHANGED <<runVars, fetchVars, politeVars, loopVars, pageVars>>

\* The flush meets a job_url the other run committed meanwhile: the unique constraint
\* of Job.job_url raises IntegrityError and the run's rows are rolled back.
ConcIntegrityError(r) ==
    /\ c_pc[r] = "running"
    /\ c_added[r] \cap c_store # {}
    /\ c_pc' = [c_pc EXCEPT ![r] = "integrity_error"]
    /\ UNCHANGED <<runVars, fetchVars, politeVars, loopVars, pageVars, c_store,
                   c_existing, c_added>>

\* The failed request is over: get_db has rolled the session back.
ConcRolledBack(r) ==
    /\ c_pc[r] = "integrity_error"
    /\ c_pc' = [c_pc EXCEPT ![r] = "idle"]
    /\ c_existing' = [c_existing EXCEPT ![r] = {}]
    /\ c_added' = [c_added EXCEPT ![r] = {}]
    /\ UNCHANGED <<runVars, fetchVars, politeVars, loopVars, pageVars, c_store>>

ConcNext ==
    \E r \in Runs :
        \/ ConcRunStarts(r)
        \/ ConcAddsStub(r)
        \/ ConcCommits(r)
        \/ ConcIntegrityError(r)
        \/ ConcRolledBack(r)

ConcSpec == AuxInit /\ [][ConcNext]_vars

\* ------------------------------------------------------ claims: concurrent runs
\* C29 as stated: when two runs execute concurrently against the same store, each
\* seeded with its own known-URL set, no canonical URL is handed to persistence by both
\* runs, and no run meets a violation of the unique job_url key.
C29_Original ==
    /\ c_added[1] \cap c_added[2] = {}
    /\ \A r \in Runs : c_pc[r] # "integrity_error"

=============================================================================
